---- MODULE Spec2Model ----
(***************************************************************************)
(* Word document server: the TTL-aware blob store (azure_storage.py), the  *)
(* template store's URL issuing (template_storage.py) and the document     *)
(* helpers layered on the store (blob_document.py,                         *)
(* advanced_replace_tools.py).                                             *)
(*                                                                         *)
(* Strings are sequences of characters (one-character TLA+ strings; the    *)
(* token ".docx" stands for the extension).  A datetime is a number of     *)
(* clock ticks; TicksPerHour ticks make one hour.  An optional value is a  *)
(* sequence of length 0 (None) or 1.                                       *)
(***************************************************************************)
EXTENDS Integers, Sequences, FiniteSets, TLC

-----------------------------------------------------------------------------
(* Bounds of the model *)

MaxTime == 2
MaxFault == 4
TicksPerHour == 2
MaxParagraphs == 2
MaxRunLen == 2
MaxRows == 4
MaxLongRun == 3

-----------------------------------------------------------------------------
(* Characters, names, str.lower() and the store's enumeration order *)

LowerChar(c) ==
  CASE c = "A" -> "a"
    [] c = "B" -> "b"
    [] OTHER -> c

Lower(s) == [i \in 1..Len(s) |-> LowerChar(s[i])]

Ord(c) ==
  CASE c = ".docx" -> 46
    [] c = "/" -> 47
    [] c = "A" -> 65
    [] c = "B" -> 66
    [] c = "a" -> 97
    [] c = "b" -> 98
    [] c = "c" -> 99
    [] c = "business" -> 98
    [] c = "general" -> 103
    [] c = "t" -> 116
    [] c = "templates" -> 117
    [] OTHER -> 120

RECURSIVE LexLess(_, _)
LexLess(a, b) ==
  IF a = <<>> THEN b # <<>>
  ELSE IF b = <<>> THEN FALSE
  ELSE IF Ord(a[1]) # Ord(b[1]) THEN Ord(a[1]) < Ord(b[1])
  ELSE LexLess(Tail(a), Tail(b))

RECURSIVE SortNames(_)
SortNames(S) ==
  IF S = {} THEN <<>>
  ELSE LET m == CHOOSE x \in S : \A y \in S \ {x} : LexLess(x, y)
       IN <<m>> \o SortNames(S \ {m})

SetMin(S) == CHOOSE x \in S : \A y \in S : x <= y
SetMax(S) == CHOOSE x \in S : \A y \in S : x >= y

KeyAB == <<"A", "B", ".docx">>
KeyAb == <<"A", "b", ".docx">>
Keyab == <<"a", "b", ".docx">>
Keyc == <<"c", ".docx">>
\* names that callers save under, and names that callers ask for
SaveKeys == {KeyAB, KeyAb}
Keys == SaveKeys \cup {Keyab, Keyc}

-----------------------------------------------------------------------------
(* Strings: the str operations the code uses *)

\* find in s
Contains(s, find) ==
  \E i \in 0..(Len(s) - Len(find)) : SubSeq(s, i + 1, i + Len(find)) = find

StartsWith(s, p) == Len(p) <= Len(s) /\ SubSeq(s, 1, Len(p)) = p

\* s.replace(find, rep): left to right, occurrences that do not overlap; an
\* empty find matches before every character and at the end
RECURSIVE StrReplace(_, _, _)
StrReplace(s, find, rep) ==
  IF find = <<>>
  THEN IF s = <<>> THEN rep ELSE rep \o <<Head(s)>> \o StrReplace(Tail(s), find, rep)
  ELSE IF s = <<>> THEN <<>>
  ELSE IF StartsWith(s, find)
  THEN rep \o StrReplace(SubSeq(s, Len(find) + 1, Len(s)), find, rep)
  ELSE <<Head(s)>> \o StrReplace(Tail(s), find, rep)

\* s.count(sub)
RECURSIVE StrCount(_, _)
StrCount(s, sub) ==
  IF sub = <<>> THEN Len(s) + 1
  ELSE IF Len(s) < Len(sub) THEN 0
  ELSE IF StartsWith(s, sub)
  THEN 1 + StrCount(SubSeq(s, Len(sub) + 1, Len(s)), sub)
  ELSE StrCount(Tail(s), sub)

-----------------------------------------------------------------------------
(* Documents.  A document has body paragraphs, tables (rows of cells of    *)
(* paragraphs) and sections, each with header and footer paragraphs; a     *)
(* paragraph is a sequence of runs and a run is its text.                  *)

Document(body, tables, sections) ==
  [body |-> body, tables |-> tables, sections |-> sections]

Section(header, footer) == [header |-> header, footer |-> footer]

\* Document(): the default template
BlankDocument == Document(<<>>, <<>>, <<Section(<<>>, <<>>)>>)

\* doc.add_paragraph(text): one paragraph of one run
AddParagraph(doc, text) == [doc EXCEPT !.body = @ \o << <<text>> >>]

RECURSIVE ParaText(_)
ParaText(runs) == IF runs = <<>> THEN <<>> ELSE Head(runs) \o ParaText(Tail(runs))

Replaced(items, count) == [items |-> items, count |-> count]

\* the paragraph's text replaced as a whole and put into its first run
ReplaceInRunsMerged(runs, find_text, replace_text) ==
  Replaced([i \in 1..Len(runs) |->
              IF i = 1 THEN StrReplace(ParaText(runs), find_text, replace_text)
              ELSE <<>>],
           StrCount(ParaText(runs), find_text))

\* the loop over the runs of one paragraph
RECURSIVE ReplaceInRuns(_, _, _)
ReplaceInRuns(runs, find_text, replace_text) ==
  IF runs = <<>> THEN Replaced(<<>>, 0)
  ELSE LET rest == ReplaceInRuns(Tail(runs), find_text, replace_text)
           text == StrReplace(Head(runs), find_text, replace_text)
       IN IF Contains(Head(runs), find_text)
          THEN Replaced(<<text>> \o rest.items, StrCount(text, replace_text) + rest.count)
          ELSE Replaced(<<Head(runs)>> \o rest.items, rest.count)

RECURSIVE ReplaceInParagraphs(_, _, _)
ReplaceInParagraphs(paragraphs, find_text, replace_text) ==
  IF paragraphs = <<>> THEN Replaced(<<>>, 0)
  ELSE LET rest == ReplaceInParagraphs(Tail(paragraphs), find_text, replace_text)
           para == ReplaceInRuns(Head(paragraphs), find_text, replace_text)
       IN IF Contains(ParaText(Head(paragraphs)), find_text)
          THEN Replaced(<<para.items>> \o rest.items, para.count + rest.count)
          ELSE Replaced(<<Head(paragraphs)>> \o rest.items, rest.count)

\* the cells of one row, each a list of paragraphs
RECURSIVE ReplaceInCells(_, _, _)
ReplaceInCells(cells, find_text, replace_text) ==
  IF cells = <<>> THEN Replaced(<<>>, 0)
  ELSE LET rest == ReplaceInCells(Tail(cells), find_text, replace_text)
           cell == ReplaceInParagraphs(Head(cells), find_text, replace_text)
       IN Replaced(<<cell.items>> \o rest.items, cell.count + rest.count)

RECURSIVE ReplaceInTable(_, _, _)
ReplaceInTable(rows, find_text, replace_text) ==
  IF rows = <<>> THEN Replaced(<<>>, 0)
  ELSE LET rest == ReplaceInTable(Tail(rows), find_text, replace_text)
           row == ReplaceInCells(Head(rows), find_text, replace_text)
       IN Replaced(<<row.items>> \o rest.items, row.count + rest.count)

ReplaceInContentControls(doc, find_text, replace_text) == 0

\* the locations list: one entry per scope with a positive count
Location(scope, index, count) == IF count > 0 THEN << <<scope, index, count>> >> ELSE <<>>

RECURSIVE Flatten(_)
Flatten(ss) == IF ss = <<>> THEN <<>> ELSE Head(ss) \o Flatten(Tail(ss))

RECURSIVE SumCounts(_)
SumCounts(rs) == IF rs = <<>> THEN 0 ELSE Head(rs).count + SumCounts(Tail(rs))

ReplaceTextEverywhere(doc, find_text, replace_text) ==
  LET body == ReplaceInParagraphs(doc.body, find_text, replace_text)
      tables == [i \in 1..Len(doc.tables) |->
                   ReplaceInTable(doc.tables[i], find_text, replace_text)]
      headers == [i \in 1..Len(doc.sections) |->
                    ReplaceInParagraphs(doc.sections[i].header, find_text, replace_text)]
      footers == [i \in 1..Len(doc.sections) |->
                    ReplaceInParagraphs(doc.sections[i].footer, find_text, replace_text)]
      controls == ReplaceInContentControls(doc, find_text, replace_text)
  IN [doc |-> Document(body.items,
                       [i \in 1..Len(doc.tables) |-> tables[i].items],
                       [i \in 1..Len(doc.sections) |->
                          Section(headers[i].items, footers[i].items)]),
      total_replacements |-> body.count + SumCounts(tables) + SumCounts(headers)
                               + SumCounts(footers) + controls,
      locations |-> Location("Body paragraphs", 0, body.count)
                    \o Flatten([i \in 1..Len(doc.tables) |->
                                  Location("Table", i, tables[i].count)])
                    \o Flatten([i \in 1..Len(doc.sections) |->
                                  Location("Header section", i, headers[i].count)])
                    \o Flatten([i \in 1..Len(doc.sections) |->
                                  Location("Footer section", i, footers[i].count)])
                    \o Location("ContentControls", 0, controls)]

-----------------------------------------------------------------------------
(* Variable substitution of create_document_from_template.  The mapping is *)
(* a dict, iterated in insertion order: a sequence of <<name, value>>.     *)

\* one pattern in the first run only that contains it
SubstituteRunsFirstRun(runs, var_name, var_value) ==
  LET hits == {i \in 1..Len(runs) : Contains(runs[i], var_name)}
  IN [i \in 1..Len(runs) |->
        IF hits # {} /\ i = SetMin(hits)
        THEN StrReplace(runs[i], var_name, var_value) ELSE runs[i]]

\* one pattern replaced in the joined text of the paragraph
SubstituteRunsJoined(runs, var_name, var_value) ==
  [i \in 1..Len(runs) |->
     IF i = 1 THEN StrReplace(ParaText(runs), var_name, var_value) ELSE <<>>]

\* for run in paragraph.runs: if var_name in run.text: run.text = ...
SubstituteRuns(runs, var_name, var_value) ==
  [i \in 1..Len(runs) |->
     IF Contains(runs[i], var_name)
     THEN StrReplace(runs[i], var_name, var_value) ELSE runs[i]]

\* for var_name, var_value in variables.items(): if var_name in paragraph.text
RECURSIVE SubstituteParagraph(_, _)
SubstituteParagraph(runs, variables) ==
  IF variables = <<>> THEN runs
  ELSE LET var_name == Head(variables)[1]
           var_value == Head(variables)[2]
           after == IF Contains(ParaText(runs), var_name)
                    THEN SubstituteRuns(runs, var_name, var_value) ELSE runs
       IN SubstituteParagraph(after, Tail(variables))

SubstituteParagraphs(paragraphs, variables) ==
  [i \in 1..Len(paragraphs) |-> SubstituteParagraph(paragraphs[i], variables)]

\* the substitution pass over body, tables, headers and footers
Substitute(d, variables) ==
  IF variables = <<>> THEN d
  ELSE Document(
         SubstituteParagraphs(d.body, variables),
         [t \in 1..Len(d.tables) |->
            [r \in 1..Len(d.tables[t]) |->
               [c \in 1..Len(d.tables[t][r]) |->
                  SubstituteParagraphs(d.tables[t][r][c], variables)]]],
         [i \in 1..Len(d.sections) |->
            Section(SubstituteParagraphs(d.sections[i].header, variables),
                    SubstituteParagraphs(d.sections[i].footer, variables))])

-----------------------------------------------------------------------------
(* Table cleaning of add_document_template.  A table is its rows, a row    *)
(* its cells, a cell its paragraphs.                                       *)

Whitespace == {" ", "\n", "\t"}

\* s.strip()
RECURSIVE Strip(_)
Strip(s) ==
  IF s = <<>> THEN s
  ELSE IF Head(s) \in Whitespace THEN Strip(Tail(s))
  ELSE IF s[Len(s)] \in Whitespace THEN Strip(SubSeq(s, 1, Len(s) - 1))
  ELSE s

\* sep.join(items)
RECURSIVE Join(_, _)
Join(sep, items) ==
  IF items = <<>> THEN <<>>
  ELSE IF Len(items) = 1 THEN items[1]
  ELSE items[1] \o sep \o Join(sep, Tail(items))

\* cell.text: the texts of the cell's paragraphs, one per line
CellText(cell) == Join(<<"\n">>, [i \in 1..Len(cell) |-> ParaText(cell[i])])

DigitChars == <<"0", "1", "2", "3", "4", "5", "6", "7", "8", "9">>

\* the decimal digits of n as characters
RECURSIVE Decimal(_)
Decimal(n) ==
  IF n < 10 THEN <<DigitChars[n + 1]>>
  ELSE Decimal(n \div 10) \o <<DigitChars[(n % 10) + 1]>>

\* the title of table number table_idx (from 0) with at least one row
TableTitle(rows, table_idx) ==
  LET texts == [c \in 1..Len(rows[1]) |-> Strip(CellText(rows[1][c]))]
      title_cells == SelectSeq(texts, LAMBDA t : t # <<>>)
  IN IF title_cells # <<>> THEN Join(<<" ", "-", " ">>, title_cells)
     ELSE <<"T", "a", "b", "l", "e", "a", "u", " ">> \o Decimal(table_idx + 1)

\* every row beyond the second removed
CleanTableKeepingOne(rows) == IF Len(rows) > 2 THEN SubSeq(rows, 1, 1) ELSE rows

\* the last row removed from any table of more than one row
CleanTableDropLast(rows) ==
  IF Len(rows) > 1 THEN SubSeq(rows, 1, Len(rows) - 1) ELSE rows

\* table._element.remove(table.rows[-1]._element), len(table.rows) - 2 times
CleanTable(rows) == IF Len(rows) > 2 THEN SubSeq(rows, 1, 2) ELSE rows

\* the cleaning loop from table number i on, with the statistics so far
RECURSIVE CleanTablesFrom(_, _, _)
CleanTablesFrom(tables, i, stats) ==
  IF i > Len(tables) THEN [tables |-> tables, stats |-> stats]
  ELSE LET rows == tables[i]
           titled == IF Len(rows) > 0
                     THEN [stats EXCEPT !.table_titles = @ \o <<TableTitle(rows, i - 1)>>]
                     ELSE stats
           counted == IF Len(rows) > 2
                      THEN [titled EXCEPT !.tables_cleaned = @ + 1,
                                          !.rows_removed = @ + (Len(rows) - 2)]
                      ELSE titled
       IN CleanTablesFrom([tables EXCEPT ![i] = CleanTable(rows)], i + 1, counted)

CleanTables(d) ==
  LET r == CleanTablesFrom(d.tables, 1,
             [tables_cleaned |-> 0, rows_removed |-> 0, table_titles |-> <<>>])
  IN [doc |-> [d EXCEPT !.tables = r.tables], stats |-> r.stats]

-----------------------------------------------------------------------------
(* Byte contents.  A .docx file is a zip container: the encoded form of a  *)
(* document starts with the zip magic "PK"; other bytes do not decode.     *)

\* doc.save(buffer); buffer.getvalue()
Encode(doc) == <<"PK", doc>>

\* Document(io.BytesIO(data)): the document, or no value when it raises
Decode(data) == IF Len(data) = 2 /\ data[1] = "PK" THEN <<data[2]>> ELSE <<>>

Doc1 ==
  Document(<< <<<<"x", "y">>>> >>, <<>>, <<Section(<< <<<<"x">>>> >>, <<>>)>>)

Bytes1 == Encode(Doc1)
Bytes2 == <<"x", "y", "z">>
DataSet == {Bytes1, Bytes2}

-----------------------------------------------------------------------------
(* Configuration: the environment read at construction *)

\* A connection string is its ';'-separated items, each split at its first
\* '=': <<name, value>>, or <<text>> for an item without '='.
ConnFull == << <<"AccountName", "acct">>, <<"AccountKey", "k1">>, <<"">> >>
ConnSas == << <<"BlobEndpoint", "https://acct">>, <<"SharedAccessSignature", "sig">> >>

DefaultTtlEnv == <<2, 4>>

Env(conn, name, key, ttl) ==
  [conn |-> conn, account_name |-> name, account_key |-> key, ttl |-> ttl]

\* the configuration the document helpers run under
HelperConfigs == { Env(ConnFull, "", "", <<0>>) }

\* connection string with an account key, with a short and with the default
\* TTL, and no configuration at all
Configs ==
  { Env(ConnFull, "", "", <<0>>),
    Env(ConnFull, "acct", "", <<>>),
    Env(<<>>, "", "", <<>>) }

\* every way of configuring the backend
UrlConfigs ==
  { Env(ConnFull, "", "", <<0>>),
    Env(ConnSas, "", "", <<0>>),
    Env(<<>>, "acct", "", <<0>>),
    Env(<<>>, "acct", "k1", <<0>>),
    Env(<<>>, "", "", <<>>) }

\* the same for the template store, whose clients carry no token of their own
TemplateConfigs ==
  { Env(ConnFull, "", "", <<>>),
    Env(<<>>, "acct", "", <<>>),
    Env(<<>>, "acct", "k1", <<>>),
    Env(<<>>, "", "", <<>>) }

RECURSIVE ParseInt(_)
ParseInt(ds) ==
  IF ds = <<>> THEN 0
  ELSE ParseInt(SubSeq(ds, 1, Len(ds) - 1)) * 10 + ds[Len(ds)]

RECURSIVE Str(_)
Str(n) == IF n < 10 THEN <<n>> ELSE Str(n \div 10) \o <<n % 10>>

BlobServiceClient(c) ==
  IF c.conn # <<>> THEN "connection_string"
  ELSE IF c.account_name # "" THEN "managed_identity"
  ELSE "none"

\* enabled by a connection string only
IsEnabledConnOnly(c) == c.conn # <<>>

IsEnabled(c) == BlobServiceClient(c) # "none"

TtlHours(c) == ParseInt(IF c.ttl = <<>> THEN DefaultTtlEnv ELSE c.ttl)

\* dict(item.split('=', 1) for item in cs.split(';') if '=' in item).get(name)
PartsGet(cs, name) ==
  LET idx == {i \in 1..Len(cs) : Len(cs[i]) = 2 /\ cs[i][1] = name}
  IN IF idx = {} THEN "" ELSE cs[SetMax(idx)][2]

-----------------------------------------------------------------------------
(* Timestamps: datetime.isoformat() omits the fractional part when it is   *)
(* zero; datetime.fromisoformat() reads both forms.                        *)

Isoformat(t) ==
  IF t % TicksPerHour = 0 THEN <<t \div TicksPerHour>>
  ELSE <<t \div TicksPerHour, t % TicksPerHour>>

Fromisoformat(s) ==
  s[1] * TicksPerHour + (IF Len(s) > 1 THEN s[2] ELSE 0)

NoMetadata == [x \in {} |-> x]

Metadata(t1, t2, ttl) ==
  [created_at |-> Isoformat(t2),
   expires_at |-> Isoformat(t1 + ttl * TicksPerHour),
   ttl_hours |-> Str(ttl)]

-----------------------------------------------------------------------------
(* The blob container: name -> [data, metadata] *)

EmptyStore == [n \in {} |-> n]

\* upload_blob without overwrite=True, the failure swallowed
UploadBlobNoOverwrite(st, name, data, meta) ==
  IF name \in DOMAIN st THEN st
  ELSE [n \in DOMAIN st \cup {name} |->
          IF n = name THEN [data |-> data, metadata |-> meta] ELSE st[n]]

\* the content replaced and the metadata of an existing blob left as it was
UploadBlobKeepMetadata(st, name, data, meta) ==
  [n \in DOMAIN st \cup {name} |->
     IF n = name
     THEN [data |-> data,
           metadata |-> IF name \in DOMAIN st THEN st[name].metadata ELSE meta]
     ELSE st[n]]

UploadBlob(st, name, data, meta) ==
  [n \in DOMAIN st \cup {name} |->
     IF n = name THEN [data |-> data, metadata |-> meta] ELSE st[n]]

\* delete_blob left out
DeleteBlobSkipped(st, name) == st

DeleteBlob(st, name) == [n \in DOMAIN st \ {name} |-> st[n]]

ListBlobs(st) == SortNames(DOMAIN st)

\* the comparison taken as >=
IsExpiredAtBoundary(meta, t) ==
  /\ "expires_at" \in DOMAIN meta
  /\ t >= Fromisoformat(meta.expires_at)

IsExpired(meta, t) ==
  /\ "expires_at" \in DOMAIN meta
  /\ t > Fromisoformat(meta.expires_at)

World(st, loc) == [store |-> st, local |-> loc]

-----------------------------------------------------------------------------
(* AzureBlobStorage.  Every operation takes the world w (remote container  *)
(* and local directory), the configuration c, and f: the number of the     *)
(* backend call of this operation that raises (0: none does).              *)

SaveResult(w, ok, kind) == [w |-> w, ok |-> ok, kind |-> kind]

SaveLocal(w, k, b, f) ==
  IF f = 1 THEN SaveResult(w, FALSE, "error")
  ELSE SaveResult(World(w.store, UploadBlob(w.local, k, b, NoMetadata)), TRUE, "local")

\* t1, t2: the two readings of datetime.utcnow()
SaveFile(w, c, k, b, t1, t2, f) ==
  IF ~IsEnabled(c) THEN SaveLocal(w, k, b, f)
  ELSE IF f = 1 THEN SaveResult(w, FALSE, "error")
  ELSE SaveResult(World(UploadBlob(w.store, k, b, Metadata(t1, t2, TtlHours(c))), w.local),
                  TRUE, "saved")

GetResult(w, ok, data, kind, via, hit) ==
  [w |-> w, ok |-> ok, data |-> data, kind |-> kind, via |-> via, hit |-> hit]

GetLocal(w, k, f) ==
  IF k \notin DOMAIN w.local THEN GetResult(w, FALSE, <<>>, "notfound", "local", <<>>)
  ELSE IF f = 1 THEN GetResult(w, FALSE, <<>>, "error", "local", <<k>>)
  ELSE GetResult(w, TRUE, <<w.local[k].data>>, "ok", "local", <<k>>)

\* the loop without its break: the last match wins
MatchingBlobLast(st, k) ==
  LET names == ListBlobs(st)
      idx == {i \in 1..Len(names) : Lower(names[i]) = Lower(k)}
  IN IF idx = {} THEN <<>> ELSE <<names[SetMax(idx)]>>

\* the first enumerated blob whose lower-cased name equals the lower-cased k
MatchingBlob(st, k) ==
  LET names == ListBlobs(st)
      idx == {i \in 1..Len(names) : Lower(names[i]) = Lower(k)}
  IN IF idx = {} THEN <<>> ELSE <<names[SetMin(idx)]>>

\* get_blob_properties (call n), the expiry check, then delete_blob or
\* download_blob (call n + 1)
CheckAndFetch(w, name, t, f, n, via) ==
  IF f = n THEN GetResult(w, FALSE, <<>>, "error", via, <<name>>)
  ELSE IF IsExpired(w.store[name].metadata, t)
  THEN IF f = n + 1 THEN GetResult(w, FALSE, <<>>, "error", via, <<name>>)
       ELSE GetResult(World(DeleteBlob(w.store, name), w.local), FALSE, <<>>,
                      "expired", via, <<name>>)
  ELSE IF f = n + 1 THEN GetResult(w, FALSE, <<>>, "error", via, <<name>>)
       ELSE GetResult(w, TRUE, <<w.store[name].data>>, "ok", via, <<name>>)

GetFile(w, c, k, t, f) ==
  IF ~IsEnabled(c) THEN GetLocal(w, k, f)
  ELSE IF f = 1 THEN GetResult(w, FALSE, <<>>, "error", "exact", <<>>)
  ELSE IF k \in DOMAIN w.store THEN CheckAndFetch(w, k, t, f, 1, "exact")
  ELSE IF f = 2 THEN GetResult(w, FALSE, <<>>, "error", "ci", <<>>)
  ELSE LET m == MatchingBlob(w.store, k)
       IN IF m = <<>>
          THEN IF f = 3 THEN GetResult(w, FALSE, <<>>, "error", "ci", <<>>)
               ELSE GetResult(w, FALSE, <<>>, "notfound", "ci", <<>>)
          ELSE CheckAndFetch(w, m[1], t, f, 3, "ci")

ListEntry(name, blob, t) ==
  [name |-> name,
   size |-> Len(blob.data),
   created |-> IF "created_at" \in DOMAIN blob.metadata
               THEN <<blob.metadata.created_at>> ELSE <<>>,
   expires |-> IF "expires_at" \in DOMAIN blob.metadata
               THEN <<blob.metadata.expires_at>> ELSE <<>>,
   expired |-> IsExpired(blob.metadata, t)]

ListResult(ok, files) == [ok |-> ok, files |-> files]

ListLocal(w, f) ==
  IF f = 1 THEN ListResult(FALSE, <<>>)
  ELSE LET names == SortNames({n \in DOMAIN w.local : n[Len(n)] = ".docx"})
       IN ListResult(TRUE,
            [i \in 1..Len(names) |->
               [name |-> names[i], size |-> Len(w.local[names[i]].data),
                created |-> <<>>, expires |-> <<>>, expired |-> FALSE]])

\* a listing that leaves the expired blobs out
ListFilesHidingExpired(w, c, t, f) ==
  IF ~IsEnabled(c) THEN ListLocal(w, f)
  ELSE IF f = 1 THEN ListResult(FALSE, <<>>)
  ELSE LET names == SelectSeq(ListBlobs(w.store),
                              LAMBDA n : ~IsExpired(w.store[n].metadata, t))
       IN ListResult(TRUE, [i \in 1..Len(names) |-> ListEntry(names[i], w.store[names[i]], t)])

ListFiles(w, c, t, f) ==
  IF ~IsEnabled(c) THEN ListLocal(w, f)
  ELSE IF f = 1 THEN ListResult(FALSE, <<>>)
  ELSE LET names == ListBlobs(w.store)
       IN ListResult(TRUE, [i \in 1..Len(names) |-> ListEntry(names[i], w.store[names[i]], t)])

CleanupResult(w, ok, count, deleted) ==
  [w |-> w, ok |-> ok, count |-> count, deleted |-> deleted]

\* the scan loop over the listing from position i on; n is the number of
\* the next backend call, count the deletions so far
RECURSIVE CleanupScan(_, _, _, _, _, _, _, _)
CleanupScan(w, listing, i, t, f, n, count, deleted) ==
  IF i > Len(listing) THEN CleanupResult(w, TRUE, count, deleted)
  ELSE IF IsExpired(listing[i].metadata, t)
  THEN IF f = n THEN CleanupResult(w, FALSE, 0, deleted)
       ELSE CleanupScan(World(DeleteBlob(w.store, listing[i].name), w.local),
                        listing, i + 1, t, f, n + 1, count + 1,
                        deleted \cup {listing[i].name})
  ELSE CleanupScan(w, listing, i + 1, t, f, n, count, deleted)

CleanupExpiredFiles(w, c, t, f) ==
  IF ~IsEnabled(c) THEN CleanupResult(w, TRUE, 0, {})
  ELSE IF f = 1 THEN CleanupResult(w, FALSE, 0, {})
  ELSE LET names == ListBlobs(w.store)
           listing == [i \in 1..Len(names) |->
                         [name |-> names[i], metadata |-> w.store[names[i]].metadata]]
       IN CleanupScan(w, listing, 1, t, f, 2, 0, {})

NoneUrl == [kind |-> "none", blob |-> <<>>, signed |-> FALSE, perm |-> "", expiry |-> 0]

\* f"{blob_client.url}?{sas_token}" with a read-only token expiring at expiry
SasUrl(name, expiry) ==
  [kind |-> "url", blob |-> name, signed |-> TRUE, perm |-> "r", expiry |-> expiry]

\* blob_client.url alone
BareUrl(name) ==
  [kind |-> "url", blob |-> name, signed |-> FALSE, perm |-> "", expiry |-> 0]

\* the answer of get_file_url when the signing key cannot be resolved, with
\* the fallback the template store has
SigningUnavailableBare(name) == BareUrl(name)

\* the answer of get_file_url when the signing key cannot be resolved
SigningUnavailable(name) == NoneUrl

\* a URL whose token does not outlive the blob
GetFileUrlBoundedByBlob(w, c, k, hours, t, f) ==
  IF ~IsEnabled(c) \/ f = 1 THEN NoneUrl
  ELSE IF k \notin DOMAIN w.store THEN NoneUrl
  ELSE IF PartsGet(c.conn, "AccountName") = "" \/ PartsGet(c.conn, "AccountKey") = ""
  THEN NoneUrl
  ELSE IF f = 2 THEN NoneUrl
  ELSE LET asked == t + hours * TicksPerHour
           meta == w.store[k].metadata
       IN IF "expires_at" \in DOMAIN meta /\ Fromisoformat(meta.expires_at) < asked
          THEN SasUrl(k, Fromisoformat(meta.expires_at))
          ELSE SasUrl(k, asked)

GetFileUrl(w, c, k, hours, t, f) ==
  IF ~IsEnabled(c) THEN NoneUrl
  ELSE IF f = 1 THEN NoneUrl
  ELSE IF k \notin DOMAIN w.store THEN NoneUrl
  ELSE IF c.conn = <<>> THEN SigningUnavailable(k)
  ELSE IF PartsGet(c.conn, "AccountName") = "" \/ PartsGet(c.conn, "AccountKey") = ""
  THEN SigningUnavailable(k)
  ELSE IF f = 2 THEN NoneUrl
  ELSE SasUrl(k, t + hours * TicksPerHour)

-----------------------------------------------------------------------------
(* TemplateStorage: the templates container, name -> [data, metadata] *)

\* the account name the blob client reports: that of the connection string
\* (or of its endpoint), or the configured account
ClientAccountName(c) ==
  IF c.conn = <<>> THEN c.account_name
  ELSE IF PartsGet(c.conn, "AccountName") # "" THEN PartsGet(c.conn, "AccountName")
  ELSE PartsGet(c.conn, "BlobEndpoint")

\* the name used as given, with no extension added
TemplateBlobNameAsGiven(template_name, category) ==
  <<category, "/">> \o template_name

TemplateBlobName(template_name, category) ==
  <<category, "/">> \o
    (IF template_name[Len(template_name)] # ".docx"
     THEN template_name \o <<".docx">> ELSE template_name)

TemplateMetadata(category, t) ==
  [description |-> "", author |-> "", created |-> Isoformat(t), category |-> category]

TemplateResult(ts, ok, data, kind) == [ts |-> ts, ok |-> ok, data |-> data, kind |-> kind]

SaveTemplate(ts, c, template_name, data, category, t, f) ==
  IF ~IsEnabled(c) THEN TemplateResult(ts, FALSE, <<>>, "notconfigured")
  ELSE IF f = 1 THEN TemplateResult(ts, FALSE, <<>>, "error")
  ELSE TemplateResult(
         UploadBlob(ts, TemplateBlobName(template_name, category), data,
                    TemplateMetadata(category, t)),
         TRUE, <<>>, "saved")

GetTemplate(ts, c, template_name, category, f) ==
  LET blob_name == TemplateBlobName(template_name, category)
  IN IF ~IsEnabled(c) THEN TemplateResult(ts, FALSE, <<>>, "notconfigured")
     ELSE IF f = 1 THEN TemplateResult(ts, FALSE, <<>>, "error")
     ELSE IF blob_name \notin DOMAIN ts THEN TemplateResult(ts, FALSE, <<>>, "notfound")
     ELSE IF f = 2 THEN TemplateResult(ts, FALSE, <<>>, "error")
     ELSE TemplateResult(ts, TRUE, <<ts[blob_name].data>>, "ok")

DeleteTemplate(ts, c, template_name, category, f) ==
  LET blob_name == TemplateBlobName(template_name, category)
  IN IF ~IsEnabled(c) THEN TemplateResult(ts, FALSE, <<>>, "notconfigured")
     ELSE IF f = 1 THEN TemplateResult(ts, FALSE, <<>>, "error")
     ELSE IF blob_name \notin DOMAIN ts THEN TemplateResult(ts, FALSE, <<>>, "notfound")
     ELSE IF f = 2 THEN TemplateResult(ts, FALSE, <<>>, "error")
     ELSE TemplateResult(DeleteBlob(ts, blob_name), TRUE, <<>>, "deleted")


\* name.split('/')
RECURSIVE SplitPath(_)
SplitPath(name) ==
  LET idx == {i \in 1..Len(name) : name[i] = "/"}
  IN IF idx = {} THEN <<name>>
     ELSE <<SubSeq(name, 1, SetMin(idx) - 1)>>
          \o SplitPath(SubSeq(name, SetMin(idx) + 1, Len(name)))

\* the entry of one blob, or none when its name follows neither layout
TemplateInfo(ts, name) ==
  LET path_parts == SplitPath(name)
      legacy == Len(path_parts) >= 3 /\ path_parts[1] = <<"templates">>
      meta == ts[name].metadata
  IN IF ~legacy /\ Len(path_parts) < 2 THEN <<>>
     ELSE << [name |-> SelectSeq(path_parts[IF legacy THEN 3 ELSE 2],
                                 LAMBDA ch : ch # ".docx"),
              category |-> path_parts[IF legacy THEN 2 ELSE 1],
              size |-> Len(ts[name].data),
              description |-> IF "description" \in DOMAIN meta
                              THEN meta.description ELSE "No description",
              author |-> IF "author" \in DOMAIN meta THEN meta.author ELSE "Unknown",
              blob_name |-> name] >>

\* category: "" for no filter
ListTemplates(ts, c, category, f) ==
  IF ~IsEnabled(c) THEN ListResult(FALSE, <<>>)
  ELSE IF f = 1 THEN ListResult(FALSE, <<>>)
  ELSE LET prefix == IF category # "" THEN <<category, "/">> ELSE <<>>
           blobs == SelectSeq(ListBlobs(ts), LAMBDA n : StartsWith(n, prefix))
           docx == SelectSeq(blobs, LAMBDA n : n[Len(n)] = ".docx")
           known == SelectSeq(docx, LAMBDA n : TemplateInfo(ts, n) # <<>>)
       IN IF f = 2 /\ known # <<>> THEN ListResult(FALSE, <<>>)
          ELSE ListResult(TRUE, [i \in 1..Len(known) |-> TemplateInfo(ts, known[i])[1]])

GetTemplateUrl(ts, c, template_name, category, hours, t, f) ==
  LET blob_name == TemplateBlobName(template_name, category)
      account_key == IF c.account_key # "" THEN c.account_key
                     ELSE IF c.conn # <<>> THEN PartsGet(c.conn, "AccountKey")
                     ELSE ""
      account_name == IF ClientAccountName(c) # "" THEN ClientAccountName(c)
                      ELSE IF c.account_key = "" /\ c.conn # <<>>
                      THEN PartsGet(c.conn, "AccountName")
                      ELSE ""
  IN IF ~IsEnabled(c) THEN NoneUrl
     ELSE IF f = 1 THEN NoneUrl
     ELSE IF blob_name \notin DOMAIN ts THEN NoneUrl
     ELSE IF account_key = "" \/ account_name = "" THEN BareUrl(blob_name)
     ELSE IF f = 2 THEN NoneUrl
     ELSE SasUrl(blob_name, t + hours * TicksPerHour)

-----------------------------------------------------------------------------
(* The document helpers over the store.  A result carries: flag, the       *)
(* success flag the caller receives; raised, whether an exception left the *)
(* helper; failures, the failures that occurred inside; content, the bytes *)
(* it set out to store.                                                    *)

HelperResult(w, flag, raised, failures, content, kind) ==
  [w |-> w, flag |-> flag, raised |-> raised, failures |-> failures,
   content |-> content, kind |-> kind]

\* the block under "with blob_document(k) as (doc, exists)": it adds a
\* paragraph, leaves the document alone, or raises
WithBody(doc, body) ==
  IF body = "mutate" THEN AddParagraph(doc, <<"h">>) ELSE doc

BlobDocument(w, c, k, body, t, fg, fs) ==
  LET r == GetFile(w, c, k, t, fg)
      doc == IF r.ok THEN Decode(r.data[1]) ELSE <<BlankDocument>>
      read == IF r.ok THEN {} ELSE {r.kind}
  IN IF doc = <<>>
     THEN HelperResult(r.w, FALSE, TRUE, {"decode"}, <<>>, "raised")
     ELSE IF body = "raise"
     THEN HelperResult(r.w, r.ok, TRUE, read \cup {"body"}, <<>>, "raised")
     ELSE LET data == Encode(WithBody(doc[1], body))
              sv == SaveFile(r.w, c, k, data, t, t, fs)
          IN HelperResult(sv.w, r.ok, FALSE,
                          read \cup (IF sv.ok THEN {} ELSE {"write"}),
                          <<data>>, "exited")

LoadDocumentFromBlob(w, c, k, t, f) ==
  LET r == GetFile(w, c, k, t, f)
  IN IF ~r.ok THEN HelperResult(r.w, FALSE, FALSE, {r.kind}, <<>>, "get_failed")
     ELSE IF Decode(r.data[1]) = <<>>
     THEN HelperResult(r.w, FALSE, FALSE, {"decode"}, <<>>, "parse_failed")
     ELSE HelperResult(r.w, TRUE, FALSE, {}, <<>>, "loaded")

SaveDocumentToBlob(w, c, k, doc, t, f) ==
  LET sv == SaveFile(w, c, k, Encode(doc), t, t, f)
  IN IF ~sv.ok THEN HelperResult(sv.w, FALSE, FALSE, {"write"}, <<Encode(doc)>>, "save_failed")
     ELSE HelperResult(sv.w, TRUE, FALSE, {}, <<Encode(doc)>>, "saved")

ReplaceTextUniversal(w, c, k, find_text, replace_text, t, fg, fs) ==
  LET r == GetFile(w, c, k, t, fg)
      doc == IF r.ok THEN Decode(r.data[1]) ELSE <<>>
  IN IF ~r.ok THEN HelperResult(r.w, FALSE, FALSE, {r.kind}, <<>>, "does_not_exist")
     ELSE IF doc = <<>> THEN HelperResult(r.w, FALSE, FALSE, {"decode"}, <<>>, "error")
     ELSE LET result == ReplaceTextEverywhere(doc[1], find_text, replace_text)
              data == Encode(result.doc)
              sv == SaveFile(r.w, c, k, data, t, t, fs)
          IN IF ~sv.ok
             THEN HelperResult(sv.w, FALSE, FALSE, {"write"}, <<data>>, "save_failed")
             ELSE IF result.total_replacements = 0
             THEN HelperResult(sv.w, TRUE, FALSE, {}, <<data>>, "no_occurrences")
             ELSE HelperResult(sv.w, TRUE, FALSE, {}, <<data>>, "replaced")

-----------------------------------------------------------------------------
(* Creating a document from a template.  The text a tool returns is a      *)
(* sequence of pieces; category names are single pieces.                   *)

\* the default of expiry_hours in get_file_url
DefaultExpiryHours == 24

\* ensure_docx_extension(filename)
EnsureDocxExtension(filename) ==
  IF filename # <<>> /\ filename[Len(filename)] = ".docx" THEN filename
  ELSE filename \o <<".docx">>

CreateResult(w, text, kind) == [w |-> w, text |-> text, kind |-> kind]

\* the pieces of f"ok\n{url}"
UrlText(u) == <<"https://">> \o u.blob \o <<"?", "sas">>

CreateDocumentFromTemplate(ts, w, c, template_name, new_document_name, category, variables, t, fs) ==
  LET new_name == EnsureDocxExtension(new_document_name)
      clean == IF template_name[Len(template_name)] = ".docx"
               THEN SubSeq(template_name, 1, Len(template_name) - 1)
               ELSE template_name
      slashes == {i \in 1..Len(clean) : clean[i] = "/"}
      cat == IF slashes # {} /\ SetMax(slashes) = 2 THEN clean[1] ELSE category
      name == IF slashes # {} /\ SetMax(slashes) = 2
              THEN SubSeq(clean, 3, Len(clean)) ELSE clean
      g == GetTemplate(ts, c, name, cat, 0)
      doc == IF g.ok THEN Decode(g.data[1]) ELSE <<>>
  IN IF ~g.ok THEN CreateResult(w, <<"error: template not found">>, "error")
     ELSE IF doc = <<>> THEN CreateResult(w, <<"error: ", "not a document">>, "error")
     ELSE LET sv == SaveFile(w, c, new_name, Encode(Substitute(doc[1], variables)),
                             t, t, fs)
              url == GetFileUrl(sv.w, c, new_name, DefaultExpiryHours, t, 0)
          IN IF ~sv.ok THEN CreateResult(sv.w, <<"error: ", "save failed">>, "error")
             ELSE IF url # NoneUrl
             THEN CreateResult(sv.w, <<"ok", "\n">> \o UrlText(url), "ok")
             ELSE CreateResult(sv.w, <<"ok">>, "ok")

\* "created from template" in result.lower()
MentionsCreated(text) ==
  \E i \in 1..Len(text) : Lower(<<text[i]>>)[1] = "created from template"

\* the loop of simple_create_from_template over the categories not yet tried
RECURSIVE SimpleCreateLoop(_, _, _, _, _, _, _, _)
SimpleCreateLoop(ts, w, c, template_name, new_filename, categories, t, tried) ==
  IF categories = <<>>
  THEN [w |-> w, text |-> <<"Template not found in any category">>,
        kind |-> "notfound", tried |-> tried]
  ELSE LET r == CreateDocumentFromTemplate(ts, w, c, template_name, new_filename,
                                           Head(categories), <<>>, t, 0)
       IN IF MentionsCreated(r.text)
          THEN [w |-> r.w, text |-> r.text, kind |-> r.kind,
                tried |-> tried \o <<Head(categories)>>]
          ELSE SimpleCreateLoop(ts, r.w, c, template_name, new_filename,
                                Tail(categories), t, tried \o <<Head(categories)>>)

TryCategories == <<"business", "personal", "academic", "general">>

SimpleCreateFromTemplate(ts, w, c, template_name, new_filename, t) ==
  SimpleCreateLoop(ts, w, c, template_name, EnsureDocxExtension(new_filename),
                   TryCategories, t, <<>>)

-----------------------------------------------------------------------------
(* State *)

VARIABLES
  cfg,       \* the environment, read once at construction
  store,     \* the remote container
  local,     \* the local directory of the fallback
  now,       \* the clock (datetime.utcnow())
  last,      \* the operation just executed and what it returned
  written,   \* history: per key, the bytes of the latest successful save while the key has existed since
  gone,      \* history: names deleted by an expired read and not saved since
  tstore,    \* the templates container
  calls,     \* per client process, the save call it is in the middle of
  wrote,     \* history: per name, the bytes and metadata of the latest upload
  document   \* the Document object a document tool has loaded

vars == <<cfg, store, local, now, last, written, gone, tstore, calls, wrote, document>>

NoLast ==
  [op |-> "init", key |-> <<>>, ok |-> FALSE, data |-> <<>>, kind |-> "",
   via |-> "", hit |-> <<>>, fault |-> 0, count |-> 0, deleted |-> {},
   files |-> <<>>, url |-> NoneUrl, hours |-> 0, raised |-> FALSE,
   failures |-> {}, content |-> <<>>, args |-> <<>>, result |-> <<>>]

Procs == {1, 2}

Idle == [pc |-> "idle", key |-> <<>>, data |-> <<>>, metadata |-> NoMetadata]

ForeignStore == UploadBlob(EmptyStore, Keyc, Bytes2, NoMetadata)

Exists(w, c, k) == IF IsEnabled(c) THEN k \in DOMAIN w.store ELSE k \in DOMAIN w.local

\* the history of saved bytes after an operation that took the world to w2
\* and in which key k was saved successfully with bytes b (b = <<>>: no save)
WrittenAfter(w2, k, b) ==
  [x \in SaveKeys |-> IF ~Exists(w2, cfg, x) THEN <<>>
                      ELSE IF x = k /\ b # <<>> THEN b
                      ELSE written[x]]

InitWith(configs) ==
  /\ cfg \in configs
  /\ store \in (IF IsEnabled(cfg) THEN {EmptyStore, ForeignStore} ELSE {EmptyStore})
  /\ local = EmptyStore
  /\ now = 0
  /\ last = NoLast
  /\ written = [x \in SaveKeys |-> <<>>]
  /\ gone = {}
  /\ tstore = EmptyStore
  /\ calls = [p \in Procs |-> Idle]
  /\ wrote = EmptyStore
  /\ document = BlankDocument

Init == InitWith(Configs)

Tick ==
  /\ now < MaxTime
  /\ now' = now + 1
  /\ last' = [NoLast EXCEPT !.op = "tick"]
  /\ UNCHANGED <<cfg, store, local, written, gone, tstore, calls, wrote, document>>

\* adv: whether the clock advances between the two readings of utcnow()
DoSave(k, b, f, adv) ==
  /\ now + adv <= MaxTime
  /\ adv > 0 => (IsEnabled(cfg) /\ f = 0)
  /\ \E r \in {SaveFile(World(store, local), cfg, k, b, now, now + adv, f)} :
       /\ store' = r.w.store
       /\ local' = r.w.local
       /\ last' = [NoLast EXCEPT !.op = "save", !.key = k, !.ok = r.ok, !.data = <<b>>,
                                 !.kind = r.kind, !.fault = f]
       /\ written' = WrittenAfter(r.w, k, IF r.ok THEN <<b>> ELSE <<>>)
       /\ gone' = IF r.ok THEN gone \ {k} ELSE gone
  /\ now' = now + adv
  /\ UNCHANGED <<cfg, tstore, calls, wrote, document>>

DoGet(k, f) ==
  /\ \E r \in {GetFile(World(store, local), cfg, k, now, f)} :
       /\ store' = r.w.store
       /\ local' = r.w.local
       /\ last' = [NoLast EXCEPT !.op = "get", !.key = k, !.ok = r.ok, !.data = r.data,
                                 !.kind = r.kind, !.via = r.via, !.hit = r.hit, !.fault = f]
       /\ written' = WrittenAfter(r.w, <<>>, <<>>)
       /\ gone' = IF r.kind = "expired" THEN gone \cup {r.hit[1]} ELSE gone
  /\ UNCHANGED <<cfg, now, tstore, calls, wrote, document>>

DoList(f) ==
  /\ \E r \in {ListFiles(World(store, local), cfg, now, f)} :
       last' = [NoLast EXCEPT !.op = "list", !.ok = r.ok, !.files = r.files, !.fault = f]
  /\ UNCHANGED <<cfg, store, local, now, written, gone, tstore, calls, wrote, document>>

DoCleanup(f) ==
  /\ \E r \in {CleanupExpiredFiles(World(store, local), cfg, now, f)} :
       /\ store' = r.w.store
       /\ local' = r.w.local
       /\ last' = [NoLast EXCEPT !.op = "cleanup", !.ok = r.ok, !.count = r.count,
                                 !.deleted = r.deleted, !.fault = f]
       /\ written' = WrittenAfter(r.w, <<>>, <<>>)
  /\ UNCHANGED <<cfg, now, gone, tstore, calls, wrote, document>>

Next ==
  \/ Tick
  \/ \E k \in SaveKeys, b \in DataSet, f \in 0..1, adv \in 0..1 : DoSave(k, b, f, adv)
  \/ \E k \in Keys, f \in 0..MaxFault : DoGet(k, f)
  \/ \E f \in 0..1 : DoList(f)
  \/ \E f \in 0..MaxFault : DoCleanup(f)

Spec == Init /\ [][Next]_vars

-----------------------------------------------------------------------------
(* The URL issuer over every backend configuration *)

ExpiryHours == {1, DefaultExpiryHours}

DoGetUrl(k, hours, f) ==
  /\ \E u \in {GetFileUrl(World(store, local), cfg, k, hours, now, f)} :
       last' = [NoLast EXCEPT !.op = "url", !.key = k, !.url = u, !.ok = (u # NoneUrl),
                              !.fault = f, !.hours = hours]
  /\ UNCHANGED <<cfg, store, local, now, written, gone, tstore, calls, wrote, document>>

InitUrl == InitWith(UrlConfigs)

NextUrl ==
  \/ Tick
  \/ \E k \in SaveKeys, f \in 0..1 : DoSave(k, Bytes1, f, 0)
  \/ \E k \in Keys : DoGet(k, 0)
  \/ \E k \in Keys, hours \in ExpiryHours, f \in 0..2 : DoGetUrl(k, hours, f)
  \/ DoCleanup(0)

SpecUrl == InitUrl /\ [][NextUrl]_vars

-----------------------------------------------------------------------------
(* The template store *)

TemplateNames == {<<"t">>, <<"t", ".docx">>}
Categories == {"general", "business"}

DoSaveTemplate(name, b, category, f) ==
  /\ \E r \in {SaveTemplate(tstore, cfg, name, b, category, now, f)} :
       /\ tstore' = r.ts
       /\ last' = [NoLast EXCEPT !.op = "save_template", !.key = name, !.ok = r.ok,
                                 !.data = <<b>>, !.kind = r.kind, !.via = category,
                                 !.fault = f]
  /\ UNCHANGED <<cfg, store, local, now, written, gone, calls, wrote, document>>

DoGetTemplate(name, category, f) ==
  /\ \E r \in {GetTemplate(tstore, cfg, name, category, f)} :
       last' = [NoLast EXCEPT !.op = "get_template", !.key = name, !.ok = r.ok,
                              !.data = r.data, !.kind = r.kind, !.via = category,
                              !.fault = f]
  /\ UNCHANGED <<cfg, store, local, now, written, gone, tstore, calls, wrote, document>>

DoDeleteTemplate(name, category, f) ==
  /\ \E r \in {DeleteTemplate(tstore, cfg, name, category, f)} :
       /\ tstore' = r.ts
       /\ last' = [NoLast EXCEPT !.op = "delete_template", !.key = name, !.ok = r.ok,
                                 !.kind = r.kind, !.via = category, !.fault = f]
  /\ UNCHANGED <<cfg, store, local, now, written, gone, calls, wrote, document>>

DoGetTemplateUrl(name, category, hours, f) ==
  /\ \E u \in {GetTemplateUrl(tstore, cfg, name, category, hours, now, f)} :
       last' = [NoLast EXCEPT !.op = "template_url", !.key = name, !.via = category,
                              !.url = u, !.ok = (u # NoneUrl), !.fault = f,
                              !.hours = hours]
  /\ UNCHANGED <<cfg, store, local, now, written, gone, tstore, calls, wrote, document>>

\* a container that holds one template in the older layout
LegacyTemplates ==
  UploadBlob(EmptyStore, <<"templates", "/", "general", "/", "t", ".docx">>,
             Bytes1, NoMetadata)

DoListTemplates(category, f) ==
  /\ \E r \in {ListTemplates(tstore, cfg, category, f)} :
       last' = [NoLast EXCEPT !.op = "list_templates", !.via = category, !.ok = r.ok,
                              !.files = r.files, !.fault = f]
  /\ UNCHANGED <<cfg, store, local, now, written, gone, tstore, calls, wrote, document>>

InitTemplates ==
  /\ cfg \in TemplateConfigs
  /\ store = EmptyStore
  /\ local = EmptyStore
  /\ now = 0
  /\ last = NoLast
  /\ written = [x \in SaveKeys |-> <<>>]
  /\ gone = {}
  /\ tstore \in (IF IsEnabled(cfg) THEN {EmptyStore, LegacyTemplates} ELSE {EmptyStore})
  /\ calls = [p \in Procs |-> Idle]
  /\ wrote = EmptyStore
  /\ document = BlankDocument

NextTemplates ==
  \/ Tick
  \/ \E n \in TemplateNames, b \in DataSet, c \in Categories, f \in 0..1 :
       DoSaveTemplate(n, b, c, f)
  \/ \E n \in TemplateNames, c \in Categories, f \in 0..2 : DoGetTemplate(n, c, f)
  \/ \E n \in TemplateNames, c \in Categories, f \in 0..2 : DoDeleteTemplate(n, c, f)
  \/ \E n \in TemplateNames, c \in Categories, f \in 0..2 :
       DoGetTemplateUrl(n, c, DefaultExpiryHours, f)
  \/ \E c \in Categories \cup {""}, f \in 0..2 : DoListTemplates(c, f)

SpecTemplates == InitTemplates /\ [][NextTemplates]_vars

-----------------------------------------------------------------------------
(* The document helpers *)

HelperKeys == {KeyAb, Keyab}
Bodies == {"mutate", "return", "raise"}

\* the block may add a paragraph only while the document has room for it
BodyAllowed(k, body) ==
  body = "mutate" =>
    \A n \in DOMAIN store :
       Lower(n) = Lower(k) =>
         \A d \in {Decode(store[n].data)} :
            d # <<>> => Len(d[1].body) < MaxParagraphs

HelperLast(op, k, r, f) ==
  [NoLast EXCEPT !.op = op, !.key = k, !.ok = r.flag, !.raised = r.raised,
                 !.failures = r.failures, !.content = r.content, !.kind = r.kind,
                 !.fault = f]

DoBlobDocument(k, body, fg, fs) ==
  /\ BodyAllowed(k, body)
  /\ \E r \in {BlobDocument(World(store, local), cfg, k, body, now, fg, fs)} :
       /\ store' = r.w.store
       /\ local' = r.w.local
       /\ last' = [HelperLast("blob_document", k, r, fg) EXCEPT !.via = body]
  /\ UNCHANGED <<cfg, now, written, gone, tstore, calls, wrote, document>>

DoLoadDocument(k, f) ==
  /\ \E r \in {LoadDocumentFromBlob(World(store, local), cfg, k, now, f)} :
       /\ store' = r.w.store
       /\ local' = r.w.local
       /\ last' = HelperLast("load_document", k, r, f)
  /\ UNCHANGED <<cfg, now, written, gone, tstore, calls, wrote, document>>

DoSaveDocument(k, doc, f) ==
  /\ \E r \in {SaveDocumentToBlob(World(store, local), cfg, k, doc, now, f)} :
       /\ store' = r.w.store
       /\ local' = r.w.local
       /\ last' = HelperLast("save_document", k, r, f)
  /\ UNCHANGED <<cfg, now, written, gone, tstore, calls, wrote, document>>

DoReplaceUniversal(k, find_text, replace_text, fg, fs) ==
  /\ \E r \in {ReplaceTextUniversal(World(store, local), cfg, k, find_text,
                                    replace_text, now, fg, fs)} :
       /\ store' = r.w.store
       /\ local' = r.w.local
       /\ last' = HelperLast("replace_universal", k, r, fg)
  /\ UNCHANGED <<cfg, now, written, gone, tstore, calls, wrote, document>>

\* a caller stores bytes that are no document
DoSaveBytes(k) ==
  /\ \E r \in {SaveFile(World(store, local), cfg, k, Bytes2, now, now, 0)} :
       /\ store' = r.w.store
       /\ local' = r.w.local
       /\ last' = [NoLast EXCEPT !.op = "save", !.key = k, !.ok = r.ok,
                                 !.data = <<Bytes2>>, !.kind = r.kind]
  /\ UNCHANGED <<cfg, now, written, gone, tstore, calls, wrote, document>>

InitHelpers ==
  /\ cfg \in HelperConfigs
  /\ store = EmptyStore
  /\ local = EmptyStore
  /\ now = 0
  /\ last = NoLast
  /\ written = [x \in SaveKeys |-> <<>>]
  /\ gone = {}
  /\ tstore = EmptyStore
  /\ calls = [p \in Procs |-> Idle]
  /\ wrote = EmptyStore
  /\ document = BlankDocument

NextHelpers ==
  \/ Tick
  \/ \E k \in HelperKeys : DoSaveBytes(k)
  \/ \E k \in HelperKeys, f \in 0..1 : DoSaveDocument(k, Doc1, f)
  \/ \E k \in HelperKeys, f \in 0..1 : DoLoadDocument(k, f)
  \/ \E k \in HelperKeys, body \in Bodies, fg \in 0..1, fs \in 0..1 :
       DoBlobDocument(k, body, fg, fs)
  \/ \E k \in HelperKeys, fg \in 0..1, fs \in 0..1 :
       DoReplaceUniversal(k, <<"x">>, <<"w">>, fg, fs)

SpecHelpers == InitHelpers /\ [][NextHelpers]_vars

-----------------------------------------------------------------------------
(* Universal replace on stored documents that outlive a clock tick: the    *)
(* time to live is 0 or 1 hour.                                            *)

TouchConfigs == HelperConfigs \cup { Env(ConnFull, "", "", <<1>>) }

InitTouch ==
  /\ cfg \in TouchConfigs
  /\ store = EmptyStore
  /\ local = EmptyStore
  /\ now = 0
  /\ last = NoLast
  /\ written = [x \in SaveKeys |-> <<>>]
  /\ gone = {}
  /\ tstore = EmptyStore
  /\ calls = [p \in Procs |-> Idle]
  /\ wrote = EmptyStore
  /\ document = BlankDocument

NextTouch ==
  \/ Tick
  \/ \E k \in HelperKeys : DoSaveDocument(k, Doc1, 0)
  \/ \E k \in HelperKeys, find_text \in {<<"x">>, <<"z">>}, fs \in 0..1 :
       DoReplaceUniversal(k, find_text, <<"w">>, 0, fs)

SpecTouch == InitTouch /\ [][NextTouch]_vars

-----------------------------------------------------------------------------
(* Concurrent clients of the remote store.  save_file is two steps: it     *)
(* reads the clock and builds the metadata, then makes the one upload_blob *)
(* call, which the service applies atomically.                             *)

ConcKeys == {KeyAb}

SaveBegin(p, k, b, adv) ==
  /\ calls[p].pc = "idle"
  /\ now + adv <= MaxTime
  /\ calls' = [calls EXCEPT ![p] =
                 [pc |-> "upload", key |-> k, data |-> b,
                  metadata |-> Metadata(now, now + adv, TtlHours(cfg))]]
  /\ now' = now + adv
  /\ last' = [NoLast EXCEPT !.op = "save_begin", !.key = k]
  /\ UNCHANGED <<cfg, store, local, written, gone, tstore, wrote, document>>

SaveUpload(p, f) ==
  /\ calls[p].pc = "upload"
  /\ \E c \in {calls[p]} :
       /\ store' = IF f = 1 THEN store
                   ELSE UploadBlob(store, c.key, c.data, c.metadata)
       /\ wrote' = IF f = 1 THEN wrote
                   ELSE [n \in DOMAIN wrote \cup {c.key} |->
                           IF n = c.key THEN [data |-> c.data, metadata |-> c.metadata]
                           ELSE wrote[n]]
       /\ last' = [NoLast EXCEPT !.op = "save", !.key = c.key, !.ok = (f # 1),
                                 !.data = <<c.data>>, !.fault = f,
                                 !.kind = IF f = 1 THEN "error" ELSE "saved"]
  /\ calls' = [calls EXCEPT ![p] = Idle]
  /\ UNCHANGED <<cfg, local, now, written, gone, tstore, document>>

InitConc ==
  /\ cfg \in HelperConfigs
  /\ store = EmptyStore
  /\ local = EmptyStore
  /\ now = 0
  /\ last = NoLast
  /\ written = [x \in SaveKeys |-> <<>>]
  /\ gone = {}
  /\ tstore = EmptyStore
  /\ calls = [p \in Procs |-> Idle]
  /\ wrote = EmptyStore
  /\ document = BlankDocument

NextConc ==
  \/ Tick
  \/ \E p \in Procs, k \in ConcKeys, b \in DataSet, adv \in 0..1 : SaveBegin(p, k, b, adv)
  \/ \E p \in Procs, f \in 0..1 : SaveUpload(p, f)

SpecConc == InitConc /\ [][NextConc]_vars

-----------------------------------------------------------------------------
(* Concurrent readers, cleaners and writers of the remote store.  get_file *)
(* reads the blob's properties, decides that it has expired, and only then *)
(* calls delete_blob; cleanup_expired_files enumerates the blobs with      *)
(* their metadata and deletes the expired ones one call at a time.  Each   *)
(* call to the service is one step; other clients run in between.          *)

RaceKeys == {KeyAb, Keyab}

\* get_file up to the expiry check: the properties of the blob named k, or
\* of the first blob matching it without regard to case
GetCheck(p, k) ==
  /\ calls[p].pc = "idle"
  /\ IsEnabled(cfg)
  /\ \E hit \in {IF k \in DOMAIN store THEN <<k>> ELSE MatchingBlob(store, k)} :
       IF hit = <<>>
       THEN /\ calls' = calls
            /\ last' = [NoLast EXCEPT !.op = "get", !.key = k, !.kind = "notfound"]
       ELSE IF IsExpired(store[hit[1]].metadata, now)
       THEN /\ calls' = [calls EXCEPT ![p] =
                           [pc |-> "delete", key |-> hit[1], data |-> <<>>,
                            metadata |-> store[hit[1]].metadata]]
            /\ last' = [NoLast EXCEPT !.op = "get_check", !.key = k, !.hit = hit]
       ELSE /\ calls' = calls
            /\ last' = [NoLast EXCEPT !.op = "get", !.key = k, !.ok = TRUE,
                                      !.kind = "found", !.hit = hit,
                                      !.data = <<store[hit[1]].data>>]
  /\ UNCHANGED <<cfg, store, local, now, written, gone, tstore, wrote, document>>

\* blob_client.delete_blob() of get_file; the blob being gone raises
GetDelete(p) ==
  /\ calls[p].pc = "delete"
  /\ store' = DeleteBlob(store, calls[p].key)
  /\ last' = [NoLast EXCEPT !.op = "get", !.key = calls[p].key,
                            !.kind = IF calls[p].key \in DOMAIN store
                                     THEN "expired" ELSE "error"]
  /\ calls' = [calls EXCEPT ![p] = Idle]
  /\ UNCHANGED <<cfg, local, now, written, gone, tstore, wrote, document>>

\* container_client.list_blobs(include=['metadata'])
CleanupList(p) ==
  /\ calls[p].pc = "idle"
  /\ IsEnabled(cfg)
  /\ calls' = [calls EXCEPT ![p] =
                 [pc |-> "sweep", key |-> <<>>,
                  data |-> [i \in 1..Len(ListBlobs(store)) |->
                              [name |-> ListBlobs(store)[i],
                               metadata |-> store[ListBlobs(store)[i]].metadata]],
                  metadata |-> NoMetadata]]
  /\ last' = [NoLast EXCEPT !.op = "cleanup_list"]
  /\ UNCHANGED <<cfg, store, local, now, written, gone, tstore, wrote, document>>

\* one turn of the loop of cleanup_expired_files over the enumerated blobs
CleanupStep(p) ==
  /\ calls[p].pc = "sweep"
  /\ \E todo \in {calls[p].data} :
       IF todo = <<>>
       THEN /\ store' = store
            /\ calls' = [calls EXCEPT ![p] = Idle]
            /\ last' = [NoLast EXCEPT !.op = "cleanup", !.ok = TRUE]
       ELSE IF ~IsExpired(Head(todo).metadata, now)
       THEN /\ store' = store
            /\ calls' = [calls EXCEPT ![p].data = Tail(todo)]
            /\ last' = [NoLast EXCEPT !.op = "cleanup_skip", !.key = Head(todo).name]
       ELSE IF Head(todo).name \in DOMAIN store
       THEN /\ store' = DeleteBlob(store, Head(todo).name)
            /\ calls' = [calls EXCEPT ![p].data = Tail(todo)]
            /\ last' = [NoLast EXCEPT !.op = "cleanup_delete", !.key = Head(todo).name]
       ELSE /\ store' = store
            /\ calls' = [calls EXCEPT ![p] = Idle]
            /\ last' = [NoLast EXCEPT !.op = "cleanup", !.kind = "error"]
  /\ UNCHANGED <<cfg, local, now, written, gone, tstore, wrote, document>>

NextRace ==
  \/ Tick
  \/ \E p \in Procs, k \in ConcKeys : SaveBegin(p, k, Bytes1, 0)
  \/ \E p \in Procs : SaveUpload(p, 0)
  \/ \E p \in Procs, k \in RaceKeys : GetCheck(p, k)
  \/ \E p \in Procs : GetDelete(p)
  \/ \E p \in Procs : CleanupList(p)
  \/ \E p \in Procs : CleanupStep(p)

SpecRace == InitConc /\ [][NextRace]_vars

-----------------------------------------------------------------------------
(* Backend selection: every combination of connection string and account   *)
(* name, over a container and a working directory that both hold a file    *)
(* already.                                                                *)

BackendConfigs ==
  { Env(ConnFull, "", "", <<0>>),
    Env(ConnFull, "acct", "", <<0>>),
    Env(<<>>, "acct", "", <<0>>),
    Env(<<>>, "", "", <<0>>) }

LocalFiles == UploadBlob(EmptyStore, KeyAb, Bytes2, NoMetadata)

InitBackend ==
  /\ cfg \in BackendConfigs
  /\ store = ForeignStore
  /\ local = LocalFiles
  /\ now = 0
  /\ last = NoLast
  /\ written = [x \in SaveKeys |-> <<>>]
  /\ gone = {}
  /\ tstore = EmptyStore
  /\ calls = [p \in Procs |-> Idle]
  /\ wrote = EmptyStore
  /\ document = BlankDocument

NextBackend ==
  \/ Tick
  \/ \E k \in SaveKeys, f \in 0..1 : DoSave(k, Bytes1, f, 0)
  \/ \E k \in Keys, f \in 0..1 : DoGet(k, f)
  \/ \E f \in 0..1 : DoList(f)
  \/ \E f \in 0..2 : DoCleanup(f)

SpecBackend == InitBackend /\ [][NextBackend]_vars

-----------------------------------------------------------------------------
(* The document tools on a loaded document: the substitution pass of       *)
(* create_document_from_template and replace_text_everywhere, applied to   *)
(* documents drawn from a bounded set, possibly one after another.         *)

\* one run "xy"; the same text split over two runs; two runs "xx" and "xw"
ParaWhole == << <<"x", "y">> >>
ParaSplit == << <<"x">>, <<"y">> >>
ParaTwice == << <<"x", "x">>, <<"x", "w">> >>
InputParas == {ParaWhole, ParaSplit, ParaTwice}

InputDocs ==
  { Document(<<b>>, << << << <<c>> >> >> >>, <<Section(<<h>>, <<ft>>)>>) :
      b \in InputParas, c \in InputParas, h \in InputParas,
      ft \in {ParaWhole, ParaTwice} }

\* every paragraph of a document: body, table cells, headers, footers
AllParagraphs(d) ==
  d.body
  \o Flatten([t \in 1..Len(d.tables) |->
       Flatten([r \in 1..Len(d.tables[t]) |-> Flatten(d.tables[t][r])])])
  \o Flatten([i \in 1..Len(d.sections) |-> d.sections[i].header])
  \o Flatten([i \in 1..Len(d.sections) |-> d.sections[i].footer])

AllRuns(d) == Flatten(AllParagraphs(d))

\* the documents the tools are applied to: no run longer than MaxRunLen
Small(d) == LET runs == AllRuns(d) IN \A i \in 1..Len(runs) : Len(runs[i]) <= MaxRunLen

\* variables: {"xy": "w"}, {"x": "xx"}, {"x": "y", "y": "w"} in both orders
Mappings ==
  { << <<<<"x", "y">>, <<"w">>>> >>,
    << <<<<"x">>, <<"x", "x">>>> >>,
    << <<<<"x">>, <<"y">>>>, <<<<"y">>, <<"w">>>> >>,
    << <<<<"y">>, <<"w">>>>, <<<<"x">>, <<"y">>>> >>,
    <<>> }

\* (find_text, replace_text) pairs
Replacements ==
  { << <<"x", "y">>, <<"w">> >>,
    << <<"x">>, <<>> >>,
    << <<"x">>, <<"w">> >>,
    << <<"x">>, <<"x", "x">> >>,
    << <<"z">>, <<"w">> >> }

DoSubstitute(variables) ==
  /\ Small(document)
  /\ document' = Substitute(document, variables)
  /\ last' = [NoLast EXCEPT !.op = "substitute", !.args = variables]
  /\ UNCHANGED <<cfg, store, local, now, written, gone, tstore, calls, wrote>>

DoReplaceEverywhere(find_text, replace_text) ==
  /\ Small(document)
  /\ \E r \in {ReplaceTextEverywhere(document, find_text, replace_text)} :
       /\ document' = r.doc
       /\ last' = [NoLast EXCEPT !.op = "replace_everywhere",
                                 !.args = <<find_text, replace_text>>,
                                 !.count = r.total_replacements,
                                 !.result = r.locations]
  /\ UNCHANGED <<cfg, store, local, now, written, gone, tstore, calls, wrote>>

\* a cell of one paragraph of one run
TextCell(text) == << <<text>> >>

\* data row number i of a table
DataRow(i) == << TextCell(<<"r", DigitChars[i + 1]>>), TextCell(<<"x">>) >>

\* first rows: a padded title; a title and a blank cell; two texts; all
\* cells empty; a cell of two paragraphs
TitleRows ==
  { << TextCell(<<" ", "T">>) >>,
    << TextCell(<<"a">>), TextCell(<<" ">>) >>,
    << TextCell(<<"a">>), TextCell(<<"b">>) >>,
    << TextCell(<<>>), TextCell(<<" ">>) >>,
    << << <<<<"a">>>>, <<<<"b">>>> >> >> }

\* a table of n rows under a first row
TableOf(first, n) ==
  IF n = 0 THEN <<>> ELSE <<first>> \o [i \in 1..(n - 1) |-> DataRow(i)]

Tables == {TableOf(first, n) : first \in TitleRows, n \in 0..MaxRows}

TableDocs ==
  { Document(<<ParaWhole>>, <<t1>> \o rest, <<Section(<<>>, <<>>)>>) :
      t1 \in Tables,
      rest \in {<<>>, <<TableOf(<< TextCell(<<>>) >>, 3)>>,
               <<TableOf(<< TextCell(<<"a">>) >>, 2)>>} }

DoCleanTables ==
  /\ \E r \in {CleanTables(document)} :
       /\ document' = r.doc
       /\ last' = [NoLast EXCEPT !.op = "clean_tables",
                                 !.count = r.stats.rows_removed,
                                 !.result = r.stats]
  /\ UNCHANGED <<cfg, store, local, now, written, gone, tstore, calls, wrote>>

InitDocs ==
  /\ cfg \in HelperConfigs
  /\ store = EmptyStore
  /\ local = EmptyStore
  /\ now = 0
  /\ last = NoLast
  /\ written = [x \in SaveKeys |-> <<>>]
  /\ gone = {}
  /\ tstore = EmptyStore
  /\ calls = [p \in Procs |-> Idle]
  /\ wrote = EmptyStore
  /\ document \in InputDocs

NextDocs ==
  \/ \E variables \in Mappings : DoSubstitute(variables)
  \/ \E fr \in Replacements : DoReplaceEverywhere(fr[1], fr[2])

SpecDocs == InitDocs /\ [][NextDocs]_vars

\* table cleaning on documents whose tables have 0 to MaxRows rows
InitTables ==
  /\ cfg \in HelperConfigs
  /\ store = EmptyStore
  /\ local = EmptyStore
  /\ now = 0
  /\ last = NoLast
  /\ written = [x \in SaveKeys |-> <<>>]
  /\ gone = {}
  /\ tstore = EmptyStore
  /\ calls = [p \in Procs |-> Idle]
  /\ wrote = EmptyStore
  /\ document \in TableDocs

NextTables == DoCleanTables

SpecTables == InitTables /\ [][NextTables]_vars

-----------------------------------------------------------------------------
(* Documents created from templates held in four categories *)

\* the template a category holds: its body says which category it is
TemplateOf(category) ==
  Encode(Document(<< <<<<category>>>> >>, <<>>, <<Section(<<>>, <<>>)>>))

NewNames == {<<"A", "b">>, KeyAb}

DoCreateFromTemplate(name, new_name, category, variables) ==
  /\ \E r \in {CreateDocumentFromTemplate(tstore, World(store, local), cfg, name,
                                          new_name, category, variables, now, 0)} :
       /\ store' = r.w.store
       /\ local' = r.w.local
       /\ last' = [NoLast EXCEPT !.op = "create_from_template", !.key = name,
                                 !.via = category, !.ok = (r.kind = "ok"),
                                 !.kind = r.kind, !.result = r.text]
  /\ UNCHANGED <<cfg, now, written, gone, tstore, calls, wrote, document>>

DoSimpleCreate(name, new_name) ==
  /\ \E r \in {SimpleCreateFromTemplate(tstore, World(store, local), cfg, name,
                                        new_name, now)} :
       /\ store' = r.w.store
       /\ local' = r.w.local
       /\ last' = [NoLast EXCEPT !.op = "simple_create", !.key = name,
                                 !.ok = (r.kind = "ok"), !.kind = r.kind,
                                 !.result = r.text, !.args = r.tried]
  /\ UNCHANGED <<cfg, now, written, gone, tstore, calls, wrote, document>>

InitCreate ==
  /\ cfg \in HelperConfigs
  /\ store = EmptyStore
  /\ local = EmptyStore
  /\ now = 0
  /\ last = NoLast
  /\ written = [x \in SaveKeys |-> <<>>]
  /\ gone = {}
  /\ tstore = EmptyStore
  /\ calls = [p \in Procs |-> Idle]
  /\ wrote = EmptyStore
  /\ document = BlankDocument

NextCreate ==
  \/ \E i \in 1..Len(TryCategories) :
       DoSaveTemplate(<<"t">>, TemplateOf(TryCategories[i]), TryCategories[i], 0)
  \/ \E i \in 1..Len(TryCategories) : DoDeleteTemplate(<<"t">>, TryCategories[i], 0)
  \/ \E new_name \in NewNames, i \in 1..Len(TryCategories) :
       DoCreateFromTemplate(<<"t">>, new_name, TryCategories[i], <<>>)
  \/ \E new_name \in NewNames : DoSimpleCreate(<<"t">>, new_name)

SpecCreate == InitCreate /\ [][NextCreate]_vars

-----------------------------------------------------------------------------
(* replace_text_everywhere on runs of three characters, applied again and  *)
(* again: a body paragraph of one run and a header paragraph of two runs.  *)

LongRuns == { <<a, b, c>> : a \in {"x", "y"}, b \in {"x", "y"}, c \in {"x", "y"} }

LongDocs ==
  { Document(<< <<r>> >>, <<>>, <<Section(<< <<h, <<"y">>>> >>, <<>>)>>) :
      r \in LongRuns, h \in {<<"x">>, <<"x", "y">>, <<"x", "x", "y">>} }

\* (find_text, replace_text) pairs, find_text never a substring of replace_text
LongReplacements ==
  { << <<"x", "y">>, <<"x">> >>,
    << <<"x", "y">>, <<>> >>,
    << <<"x", "y">>, <<"w">> >>,
    << <<"y">>, <<"x">> >>,
    << <<"x">>, <<"w", "w">> >> }

DoReplaceLong(find_text, replace_text) ==
  /\ \A i \in 1..Len(AllRuns(document)) : Len(AllRuns(document)[i]) <= MaxLongRun
  /\ \E r \in {ReplaceTextEverywhere(document, find_text, replace_text)} :
       /\ document' = r.doc
       /\ last' = [NoLast EXCEPT !.op = "replace_everywhere",
                                 !.args = <<find_text, replace_text>>,
                                 !.count = r.total_replacements,
                                 !.result = r.locations]
  /\ UNCHANGED <<cfg, store, local, now, written, gone, tstore, calls, wrote>>

InitLong ==
  /\ cfg \in HelperConfigs
  /\ store = EmptyStore
  /\ local = EmptyStore
  /\ now = 0
  /\ last = NoLast
  /\ written = [x \in SaveKeys |-> <<>>]
  /\ gone = {}
  /\ tstore = EmptyStore
  /\ calls = [p \in Procs |-> Idle]
  /\ wrote = EmptyStore
  /\ document \in LongDocs

NextLong == \E r \in LongReplacements : DoReplaceLong(r[1], r[2])

SpecLong == InitLong /\ [][NextLong]_vars

-----------------------------------------------------------------------------
(* Properties of the store *)

HasExpiry(st, n) == "expires_at" \in DOMAIN st[n].metadata

ExpiresAt(st, n) == Fromisoformat(st[n].metadata.expires_at)

\* the names of st that equal k after lower-casing both
CiMatches(st, k) == {n \in DOMAIN st : Lower(n) = Lower(k)}

\* the first of a non-empty set of names in the container's enumeration order
FirstEnumerated(S) == CHOOSE n \in S : \A m \in S \ {n} : LexLess(n, m)

\* C1: round trip: save(k, b) followed by get(k), with no other save or
\* delete of k in between and before the blob's expires_at has passed, returns
\* success with exactly the bytes b (the backend answering the get).
C1_RoundTrip ==
  [][ \A k \in SaveKeys :
        ( /\ last'.op = "get" /\ last'.key = k /\ last'.fault = 0
          /\ written[k] # <<>>
          /\ IsEnabled(cfg) => now <= ExpiresAt(store, k) )
        => (last'.ok /\ last'.data = written[k]) ]_vars

C1_Witness ==
  /\ last.op = "get" /\ last.ok /\ last.via = "exact"
  /\ last.key \in SaveKeys
  /\ last.data = written[last.key]
  /\ last.data = <<Bytes2>>

\* C2: lazy expiry: a get(k) that hits a blob h (k itself, or failing that the
\* case-insensitive match) whose expires_at is earlier than the current time
\* deletes h and returns failure without data; a later list, with no save of h
\* in between, does not show h.
C2_LazyExpiry ==
  [][ /\ \A k \in Keys, h \in DOMAIN store :
           ( /\ last'.op = "get" /\ last'.key = k /\ last'.fault = 0
             /\ IsEnabled(cfg)
             /\ \/ h = k
                \/ k \notin DOMAIN store /\ <<h>> = MatchingBlob(store, k)
             /\ HasExpiry(store, h) /\ ExpiresAt(store, h) < now )
           => (h \notin DOMAIN store' /\ ~last'.ok /\ last'.data = <<>>)
      /\ (last'.op = "list" /\ last'.ok)
           => \A h \in gone : \A i \in 1..Len(last'.files) : last'.files[i].name # h
    ]_vars

C2_Witness ==
  /\ last.op = "list" /\ last.ok
  /\ gone # {}
  /\ store # EmptyStore

\* C3 as stated: with no blob named exactly k, if some live blob matches k
\* case-insensitively then get(k) succeeds with the content of the first
\* enumerated live match; if none matches, get(k) reports not found and
\* deletes nothing.
C3_Original ==
  [][ \A k \in Keys :
        ( /\ last'.op = "get" /\ last'.key = k /\ last'.fault = 0
          /\ IsEnabled(cfg) /\ k \notin DOMAIN store )
        => LET all == CiMatches(store, k)
               live == {n \in all : ~(HasExpiry(store, n) /\ ExpiresAt(store, n) < now)}
           IN /\ live # {} =>
                   (last'.ok /\ last'.data = <<store[FirstEnumerated(live)].data>>)
              /\ all = {} =>
                   (~last'.ok /\ last'.kind = "notfound" /\ store' = store) ]_vars

\* C3 amended: with no blob named exactly k, if the first enumerated blob that
\* matches k case-insensitively is live then get(k) succeeds with its content;
\* if none matches, get(k) reports not found and deletes nothing.
C3_CaseInsensitiveRecovery ==
  [][ \A k \in Keys :
        ( /\ last'.op = "get" /\ last'.key = k /\ last'.fault = 0
          /\ IsEnabled(cfg) /\ k \notin DOMAIN store )
        => LET all == CiMatches(store, k)
           IN /\ ( /\ all # {}
                   /\ ~( /\ HasExpiry(store, FirstEnumerated(all))
                         /\ ExpiresAt(store, FirstEnumerated(all)) < now) )
                 => ( /\ last'.ok
                      /\ last'.data = <<store[FirstEnumerated(all)].data>>
                      /\ store' = store )
              /\ all = {} =>
                   (~last'.ok /\ last'.kind = "notfound" /\ store' = store) ]_vars

C3_Witness ==
  /\ last.op = "get" /\ last.ok /\ last.via = "ci"
  /\ last.key = Keyab
  /\ Cardinality(CiMatches(store, Keyab)) = 2
  /\ store[KeyAB].data # store[KeyAb].data

\* C6: every blob written by save has expires_at = created_at + ttl_hours,
\* and ttl_hours = 24 when no TTL is configured.
C6_MetadataInvariant ==
  \A n \in DOMAIN store :
     HasExpiry(store, n) =>
       /\ Fromisoformat(store[n].metadata.expires_at)
            = Fromisoformat(store[n].metadata.created_at)
              + ParseInt(store[n].metadata.ttl_hours) * TicksPerHour
       /\ cfg.ttl = <<>> => store[n].metadata.ttl_hours = <<2, 4>>

\* C10: a cleanup that the backend answers deletes exactly the blobs whose
\* expires_at has passed at the scan, leaves the others (live, or without
\* expires_at) as they were, and returns the number of blobs it deleted.
C10_Cleanup ==
  [][ (last'.op = "cleanup" /\ IsEnabled(cfg))
        => LET expired == {n \in DOMAIN store :
                             HasExpiry(store, n) /\ now > ExpiresAt(store, n)}
           IN /\ last'.fault = 0 => last'.ok
              /\ last'.ok =>
                   /\ DOMAIN store' = DOMAIN store \ expired
                   /\ \A n \in DOMAIN store' : store'[n] = store[n]
                   /\ last'.count = Cardinality(expired)
                   /\ last'.count = Cardinality(DOMAIN store \ DOMAIN store') ]_vars

C10_Witness ==
  /\ last.op = "cleanup" /\ last.ok
  /\ last.count = 1
  /\ \E n \in DOMAIN store : ~HasExpiry(store, n)
  /\ \E n \in DOMAIN store : HasExpiry(store, n)

-----------------------------------------------------------------------------
(* Properties of the URL issuers *)

\* no account key in the environment nor in the connection string
NoSigningKey(c) == c.account_key = "" /\ PartsGet(c.conn, "AccountKey") = ""

\* C4: get_file_url returns None or a URL with a read-only token that expires
\* expiry_hours after the call; when the blob does not exist, the remote store
\* is disabled or no account key can be resolved, it returns None.
C4_DocumentUrlSigned ==
  last.op = "url" =>
    /\ last.url # NoneUrl =>
         /\ last.url.kind = "url" /\ last.url.blob = last.key
         /\ last.url.signed /\ last.url.perm = "r"
         /\ last.url.expiry = now + last.hours * TicksPerHour
    /\ (last.key \notin DOMAIN store \/ ~IsEnabled(cfg) \/ NoSigningKey(cfg))
         => last.url = NoneUrl

C4_Witness ==
  /\ last.op = "url" /\ last.fault = 0
  /\ last.key \in DOMAIN store
  /\ BlobServiceClient(cfg) = "managed_identity"
  /\ NoSigningKey(cfg)
  /\ last.url = NoneUrl

\* C5: every URL returned for a template carries a read-only, time-limited
\* token; with no account key or account name resolvable none is returned.
C5_TemplateUrlSigned ==
  last.op = "template_url" =>
    /\ last.url # NoneUrl => (last.url.signed /\ last.url.perm = "r")
    /\ NoSigningKey(cfg) => last.url = NoneUrl

-----------------------------------------------------------------------------
(* Properties of the document helpers *)

ReadFailures == {"notfound", "expired", "error"}

\* C7: a blob_document or replace_text_universal call on key k either ends
\* with the content it produced stored under k, or reports failure and has not
\* written k; a failed read of an existing blob, a decode error and an error
\* raised by the mutation never cause a write to k.
C7_AllOrNothing ==
  [][ \A k \in HelperKeys :
        (last'.op \in {"blob_document", "replace_universal"} /\ last'.key = k)
        => LET written_k == /\ k \in DOMAIN store'
                            /\ (k \notin DOMAIN store \/ store'[k] # store[k])
               stored == /\ k \in DOMAIN store'
                         /\ last'.content = <<store'[k].data>>
               existed == CiMatches(store, k) # {}
           IN /\ stored \/ ((last'.raised \/ ~last'.ok) /\ ~written_k)
              /\ (existed /\ last'.failures \cap ReadFailures # {}) => ~written_k
              /\ (last'.failures \cap {"decode", "body"} # {}) => ~written_k ]_vars

\* C8: every not-found, expired, decode and write failure of get, save and
\* the document helpers reaches the caller as a result with a false success
\* flag: none leaves as an exception, and no failed write goes unreported.
C8_ErrorsAsValues ==
  /\ (last.op = "get" /\ last.kind \in ReadFailures) => (~last.ok /\ last.data = <<>>)
  /\ (last.op = "save" /\ last.kind = "error") => ~last.ok
  /\ last.op \in {"blob_document", "load_document", "save_document"}
     => /\ ("decode" \in last.failures) => (~last.raised /\ ~last.ok)
        /\ ("write" \in last.failures) => ~last.ok
        /\ (last.failures \cap {"notfound", "expired"} # {}) => ~last.ok

-----------------------------------------------------------------------------
(* Properties of concurrent saves *)

\* C9: a save on an existing key does not fail for the key existing, and
\* after any interleaving of saves on one key the blob holds the bytes of one
\* of them together with the metadata that same save built.
C9_LastWriterWins ==
  /\ DOMAIN store = DOMAIN wrote
  /\ \A k \in DOMAIN store : store[k] = wrote[k]
  /\ (last.op = "save" /\ last.fault = 0) =>
       (last.ok /\ <<store[last.key].data>> = last.data)

\* two saves on one key overlap: the one that began later has just uploaded
\* and succeeded, while the one that began earlier, with other bytes, has
\* still to upload
C9_Witness ==
  /\ last.op = "save" /\ last.ok
  /\ \E p \in Procs :
       /\ calls[p].pc = "idle"
       /\ \E q \in Procs \ {p} :
            /\ calls[q].pc = "upload" /\ calls[q].key = last.key
            /\ calls[q].data # store[last.key].data
            /\ Fromisoformat(calls[q].metadata.created_at)
                 < Fromisoformat(store[last.key].metadata.created_at)

-----------------------------------------------------------------------------
(* Properties of the bulk scans *)

\* C11: a cleanup call never reports a count that differs from the number of
\* blobs it deleted, also when a per-item error stops the scan after some
\* deletions; a list call that fails returns no entries.
C11_BulkScanPolicy ==
  /\ last.op = "cleanup" => last.count = Cardinality(last.deleted)
  /\ (last.op = "list" /\ ~last.ok) => last.files = <<>>

\* C12: a list of the remote store returns one entry for every blob, with its
\* name, size, created_at, expires_at and an expired flag that is true exactly
\* when the blob has an expires_at that the current time has passed; no list
\* call, successful or not, deletes or modifies a blob.
C12_ListEveryBlob ==
  [][ last'.op = "list" =>
        /\ store' = store /\ local' = local
        /\ (last'.ok /\ IsEnabled(cfg)) =>
             /\ Len(last'.files) = Cardinality(DOMAIN store)
             /\ \A n \in DOMAIN store :
                  \E i \in 1..Len(last'.files) :
                    LET e == last'.files[i] IN
                    /\ e.name = n
                    /\ e.size = Len(store[n].data)
                    /\ e.created = (IF "created_at" \in DOMAIN store[n].metadata
                                    THEN <<store[n].metadata.created_at>> ELSE <<>>)
                    /\ e.expires = (IF HasExpiry(store, n)
                                    THEN <<store[n].metadata.expires_at>> ELSE <<>>)
                    /\ e.expired = (HasExpiry(store, n) /\ ExpiresAt(store, n) < now)
    ]_vars

\* a list that shows an expired blob, a live blob and a blob without expiry
C12_Witness ==
  /\ last.op = "list" /\ last.ok /\ IsEnabled(cfg)
  /\ \E i, j, h \in 1..Len(last.files) :
       /\ last.files[i].expired
       /\ ~last.files[j].expired /\ last.files[j].expires # <<>>
       /\ last.files[h].expires = <<>>
  /\ \A i \in 1..Len(last.files) : last.files[i].name \in DOMAIN store

-----------------------------------------------------------------------------
(* Properties of the local fallback *)

\* C13: with no remote credentials configured, a saved file is retrievable by
\* get under its own name and under any name equal to it case-insensitively,
\* and appears in list; nothing expires: list reports expired = FALSE for
\* every entry, get deletes nothing, and cleanup deletes nothing and returns
\* count 0.
C13_LocalFallback ==
  [][ ~IsEnabled(cfg) =>
        /\ \A k \in Keys :
             (last'.op = "get" /\ last'.key = k /\ last'.fault = 0)
             => /\ local' = local
                /\ CiMatches(local, k) # {} =>
                     /\ last'.ok
                     /\ \E n \in CiMatches(local, k) : last'.data = <<local[n].data>>
        /\ (last'.op = "list" /\ last'.ok) =>
             /\ {last'.files[i].name : i \in 1..Len(last'.files)} = DOMAIN local
             /\ \A i \in 1..Len(last'.files) : ~last'.files[i].expired
        /\ last'.op = "cleanup" =>
             (last'.ok /\ last'.count = 0 /\ local' = local)
    ]_vars

-----------------------------------------------------------------------------
(* Properties of backend selection *)

\* C14: is_enabled() is true exactly when a connection string or an account
\* name is configured, the connection string deciding the client when both
\* are; the flag never changes; and save, get, list and cleanup read and
\* write the remote container when it is true and the working directory when
\* it is false, never the other one.
C14_BackendSelection ==
  [][ /\ IsEnabled(cfg) <=> (cfg.conn # <<>> \/ cfg.account_name # "")
      /\ cfg.conn # <<>> => BlobServiceClient(cfg) = "connection_string"
      /\ cfg' = cfg
      /\ LET used == IF IsEnabled(cfg) THEN store ELSE local
             used2 == IF IsEnabled(cfg) THEN store' ELSE local'
             other == IF IsEnabled(cfg) THEN local ELSE store
             other2 == IF IsEnabled(cfg) THEN local' ELSE store'
         IN /\ other2 = other
            /\ (last'.op = "save" /\ last'.ok) =>
                 (last'.key \in DOMAIN used2 /\ <<used2[last'.key].data>> = last'.data)
            /\ (last'.op = "get" /\ last'.fault = 0) =>
                 /\ last'.ok => \E n \in DOMAIN used : last'.data = <<used[n].data>>
                 /\ ~last'.ok => \/ last'.key \notin DOMAIN used
                                 \/ IsExpired(used[last'.key].metadata, now)
            /\ (last'.op = "list" /\ last'.ok) =>
                 {last'.files[i].name : i \in 1..Len(last'.files)} = DOMAIN used
            /\ last'.op = "cleanup" => last'.deleted \subseteq DOMAIN used
    ]_vars

\* a get of the name that only the working directory holds fails on the
\* remote backend chosen by an account name alone
C14_Witness ==
  /\ cfg.conn = <<>> /\ cfg.account_name # ""
  /\ last.op = "get" /\ last.key = KeyAb /\ last.fault = 0
  /\ ~last.ok /\ last.kind = "notfound"
  /\ KeyAb \in DOMAIN local /\ store # EmptyStore

-----------------------------------------------------------------------------
(* Properties of the document tools *)

\* the patterns of a mapping applied in turn to the text of one run
RECURSIVE RunFold(_, _)
RunFold(text, variables) ==
  IF variables = <<>> THEN text
  ELSE RunFold(StrReplace(text, Head(variables)[1], Head(variables)[2]),
               Tail(variables))

SameShape(d1, d2) ==
  /\ Len(AllParagraphs(d1)) = Len(AllParagraphs(d2))
  /\ \A i \in 1..Len(AllParagraphs(d1)) :
       Len(AllParagraphs(d1)[i]) = Len(AllParagraphs(d2)[i])

\* C15: the substitution pass treats every run of every paragraph of the
\* body, the table cells, the headers and the footers on its own: for each
\* pattern of the mapping in turn, a run whose text contains the pattern has
\* all its occurrences replaced by the mapped value; a single run "xy" under
\* the mapping {"xy": "w"} ends as "w".
C15_RunScopedSubstitution ==
  [][ last'.op = "substitute" =>
        /\ SameShape(document, document')
        /\ \A i \in 1..Len(AllRuns(document)) :
             /\ AllRuns(document')[i] = RunFold(AllRuns(document)[i], last'.args)
             /\ ( /\ last'.args = << <<<<"x", "y">>, <<"w">>>> >>
                  /\ AllRuns(document)[i] = <<"x", "y">> )
                => AllRuns(document')[i] = <<"w">>
    ]_vars

\* the mapping {"xy": "w"} has been applied and the body, the table cell, the
\* header and the footer each consist of the one run "w"
C15_Witness ==
  /\ last.op = "substitute"
  /\ last.args = << <<<<"x", "y">>, <<"w">>>> >>
  /\ \A i \in 1..Len(AllParagraphs(document)) : AllParagraphs(document)[i] = << <<"w">> >>
  /\ Len(AllParagraphs(document)) = 4

\* a pattern present in the joined text of a paragraph but in none of its runs
SplitOnly(runs, pattern) ==
  /\ Contains(ParaText(runs), pattern)
  /\ \A i \in 1..Len(runs) : ~Contains(runs[i], pattern)

\* C16: a pattern that occurs in a paragraph's text only across the boundary
\* of adjacent runs is not matched: substitute (no other pattern of the
\* mapping occurring inside a run of the paragraph) and replace_everywhere
\* leave the texts of all runs of that paragraph unchanged.
C16_SplitToken ==
  [][ \A p \in 1..Len(AllParagraphs(document)) :
        LET runs == AllParagraphs(document)[p]
            runs2 == AllParagraphs(document')[p]
        IN /\ ( /\ last'.op = "substitute"
                /\ \E v \in 1..Len(last'.args) : SplitOnly(runs, last'.args[v][1])
                /\ \A v \in 1..Len(last'.args), i \in 1..Len(runs) :
                     ~Contains(runs[i], last'.args[v][1]) )
              => runs2 = runs
           /\ ( /\ last'.op = "replace_everywhere"
                /\ SplitOnly(runs, last'.args[1]) )
              => runs2 = runs
    ]_vars

\* "xy" has been looked for by replace_everywhere in a document whose body
\* still is the two runs "x" and "y", and it was replaced elsewhere
C16_Witness ==
  /\ last.op = "replace_everywhere"
  /\ last.args = << <<"x", "y">>, <<"w">> >>
  /\ document.body = <<ParaSplit>>
  /\ last.count > 0

\* the number of occurrences of find_text in the runs of a list of paragraphs
RECURSIVE Occurrences(_, _)
Occurrences(paragraphs, find_text) ==
  IF paragraphs = <<>> THEN 0
  ELSE LET runs == Head(paragraphs)
       IN SumCounts([i \in 1..Len(runs) |-> [count |-> StrCount(runs[i], find_text)]])
          + Occurrences(Tail(paragraphs), find_text)

TableParagraphs(rows) ==
  Flatten([r \in 1..Len(rows) |-> Flatten(rows[r])])

\* C17: replace_text_everywhere reports for each scope (body, each table,
\* each header, each footer) the number of occurrences of find_text replaced
\* in it, and total_replacements is their sum, the number of occurrences
\* replaced in the document, whatever replace_text is.
C17_ReplaceCounts ==
  [][ last'.op = "replace_everywhere" =>
        LET find_text == last'.args[1]
            d == document
        IN /\ last'.count = Occurrences(AllParagraphs(d), find_text)
           /\ last'.result =
                Location("Body paragraphs", 0, Occurrences(d.body, find_text))
                \o Flatten([i \in 1..Len(d.tables) |->
                     Location("Table", i,
                              Occurrences(TableParagraphs(d.tables[i]), find_text))])
                \o Flatten([i \in 1..Len(d.sections) |->
                     Location("Header section", i,
                              Occurrences(d.sections[i].header, find_text))])
                \o Flatten([i \in 1..Len(d.sections) |->
                     Location("Footer section", i,
                              Occurrences(d.sections[i].footer, find_text))])
    ]_vars

-----------------------------------------------------------------------------
(* Properties of table cleaning *)

Max0(n) == IF n > 0 THEN n ELSE 0

\* the tables of a document that have at least one row, in order
Titled(tables) == SelectSeq(tables, LAMBDA rows : Len(rows) > 0)

\* C18: cleaning a table of n rows removes exactly the rows 2..n-1 and keeps
\* rows 0 and 1 unchanged and in order; the rows removed that are reported are
\* max(0, n-2), summed over the tables; the title reported for a table is the
\* non-empty stripped cell texts of its row 0 joined by " - ", or a
\* placeholder when every cell of row 0 is empty.
C18_TableCleaning ==
  [][ last'.op = "clean_tables" =>
        /\ Len(document'.tables) = Len(document.tables)
        /\ \A t \in 1..Len(document.tables) :
             LET rows == document.tables[t]
                 rows2 == document'.tables[t]
                 n == Len(rows)
             IN /\ Len(rows2) = n - Max0(n - 2)
                /\ \A r \in 1..Len(rows2) : rows2[r] = rows[r]
        /\ last'.result.rows_removed =
             SumCounts([t \in 1..Len(document.tables) |->
                          [count |-> Max0(Len(document.tables[t]) - 2)]])
        /\ Len(last'.result.table_titles) = Len(Titled(document.tables))
        /\ \A t \in 1..Len(Titled(document.tables)) :
             LET first == Titled(document.tables)[t][1]
                 title == last'.result.table_titles[t]
                 texts == {Strip(CellText(first[c])) : c \in 1..Len(first)}
             IN IF texts \subseteq {<<>>}
                THEN title # <<>> /\ SubSeq(title, 1, 7) = <<"T", "a", "b", "l", "e", "a", "u">>
                ELSE /\ title # <<>>
                     /\ first = <<TextCell(<<"a">>), TextCell(<<"b">>)>>
                          => title = <<"a", " ", "-", " ", "b">>
                     /\ \A x \in texts \ {<<>>} : Contains(title, x)
                     /\ Len(title) =
                          SumCounts([c \in 1..Len(first) |->
                                       [count |-> Len(Strip(CellText(first[c])))]])
                          + 3 * (Cardinality({c \in 1..Len(first) :
                                                Strip(CellText(first[c])) # <<>>}) - 1)
    ]_vars

\* a table of four rows has been cut to its first two, a padded title was
\* reported stripped, and the second table got a placeholder title
C18_Witness ==
  /\ last.op = "clean_tables"
  /\ last.result.rows_removed = 3
  /\ last.result.tables_cleaned = 2
  /\ last.result.table_titles = << <<"T">>, <<"T", "a", "b", "l", "e", "a", "u", " ", "2">> >>
  /\ Len(document.tables[1]) = 2

\* C19: cleaning is idempotent: a cleaning pass over tables of at most two
\* rows, and so any pass that follows another, removes 0 rows, counts no
\* table as cleaned and leaves every row as it was.
C19_CleaningIdempotent ==
  [][ last'.op = "clean_tables" =>
        /\ ( \/ last.op = "clean_tables"
             \/ \A t \in 1..Len(document.tables) : Len(document.tables[t]) <= 2 )
           => /\ document' = document
              /\ last'.result.rows_removed = 0
              /\ last'.result.tables_cleaned = 0
        /\ last'.result.tables_cleaned =
             Cardinality({t \in 1..Len(document.tables) : Len(document.tables[t]) > 2})
    ]_vars

\* a pass that removed nothing over a document whose second table is the
\* three-row table cut to two rows by an earlier pass
C19_Witness ==
  /\ last.op = "clean_tables"
  /\ last.result.rows_removed = 0 /\ last.result.tables_cleaned = 0
  /\ Len(document.tables) = 2
  /\ document.tables[2] = SubSeq(TableOf(<< TextCell(<<>>) >>, 3), 1, 2)
  /\ Len(document.tables[1]) = 2

-----------------------------------------------------------------------------
(* Properties of template enumeration *)

\* blob name n is a template of the category (any category for "") in the
\* layout category/name.docx or templates/category/name.docx
TemplateOfCategory(n, category) ==
  LET parts == SplitPath(n)
  IN /\ n[Len(n)] = ".docx"
     /\ \/ Len(parts) = 2 /\ (category = "" \/ parts[1] = <<category>>)
        \/ /\ Len(parts) = 3 /\ parts[1] = <<"templates">>
           /\ (category = "" \/ parts[2] = <<category>>)

\* C20: list_templates, with or without a category filter, returns every
\* template blob of the category in either layout, category/name.docx and
\* templates/category/name.docx.
C20_BothLayoutsListed ==
  (last.op = "list_templates" /\ last.ok) =>
    \A n \in DOMAIN tstore :
      TemplateOfCategory(n, last.via) =>
        \E i \in 1..Len(last.files) : last.files[i].blob_name = n

\* C21: the list returned by list_templates never holds two entries with the
\* same (category, name), also when a template exists under both layouts.
C21_ListDeduplicated ==
  (last.op = "list_templates" /\ last.ok) =>
    \A i, j \in 1..Len(last.files) :
      ( /\ last.files[i].category = last.files[j].category
        /\ last.files[i].name = last.files[j].name ) => i = j

-----------------------------------------------------------------------------
(* Properties of template addressing *)

\* the blob key category/name.docx of a template name given with or without
\* the extension
TemplateKey(name, category) ==
  <<category, "/">> \o SelectSeq(name, LAMBDA ch : ch # ".docx") \o <<".docx">>

\* C22: save, get and delete of a template address the blob
\* category/name.docx, the name counting the same with or without ".docx":
\* a save stores its bytes under that key whatever was there, a get returns
\* the bytes under that key, a delete removes that key, and no other key is
\* touched.
C22_TemplateAddressing ==
  [][ \A n \in TemplateNames, c \in Categories :
        LET key == TemplateKey(n, c)
            others == DOMAIN tstore \ {key}
        IN (last'.key = n /\ last'.via = c /\ last'.fault = 0 /\ IsEnabled(cfg)) =>
             /\ last'.op = "save_template" =>
                  /\ last'.ok
                  /\ key \in DOMAIN tstore' /\ <<tstore'[key].data>> = last'.data
                  /\ \A o \in others : o \in DOMAIN tstore' /\ tstore'[o] = tstore[o]
                  /\ DOMAIN tstore' = DOMAIN tstore \cup {key}
             /\ last'.op = "get_template" =>
                  /\ last'.ok <=> key \in DOMAIN tstore
                  /\ last'.ok => last'.data = <<tstore[key].data>>
                  /\ tstore' = tstore
             /\ last'.op = "delete_template" =>
                  /\ last'.ok <=> key \in DOMAIN tstore
                  /\ DOMAIN tstore' = others
                  /\ \A o \in others : tstore'[o] = tstore[o]
    ]_vars

\* a get by the name with its extension returned the bytes stored under
\* business/t.docx while general/t.docx holds other bytes
C22_Witness ==
  /\ last.op = "get_template" /\ last.ok
  /\ last.key = <<"t", ".docx">> /\ last.via = "business"
  /\ <<"general", "/", "t", ".docx">> \in DOMAIN tstore
  /\ last.data # <<tstore[<<"general", "/", "t", ".docx">>].data>>

-----------------------------------------------------------------------------
(* Properties relating URLs and blobs *)

\* the account name and key can be read from the connection string
SigningKeyResolvable(c) ==
  PartsGet(c.conn, "AccountName") # "" /\ PartsGet(c.conn, "AccountKey") # ""

\* C23: a URL issued for an existing blob expires expiry_hours after the
\* call whatever the blob's own expires_at is, also when that is earlier;
\* once the blob has been deleted, by the lazy delete of get or by cleanup,
\* no URL is issued for its name and a get of it reports not found.
C23_UrlExpiryIndependent ==
  [][ /\ ( /\ last'.op = "url" /\ last'.fault = 0
           /\ IsEnabled(cfg) /\ SigningKeyResolvable(cfg)
           /\ last'.key \in DOMAIN store )
         => /\ last'.url.signed
            /\ last'.url.expiry = now + last'.hours * TicksPerHour
      /\ \A k \in Keys :
           ( /\ k \in DOMAIN store /\ k \notin DOMAIN store'
             /\ last'.op \in {"get", "cleanup"} )
           => /\ GetFileUrl(World(store', local'), cfg, k, DefaultExpiryHours, now', 0) = NoneUrl
              /\ CiMatches(store', k) = {} =>
                   GetFile(World(store', local'), cfg, k, now', 0).kind = "notfound"
    ]_vars

\* a URL has been issued for a blob that is past its own expires_at
C23_Witness ==
  /\ last.op = "url" /\ last.url.signed
  /\ last.key \in DOMAIN store
  /\ HasExpiry(store, last.key)
  /\ ExpiresAt(store, last.key) < now
  /\ ExpiresAt(store, last.key) < last.url.expiry

-----------------------------------------------------------------------------
(* Properties of simple_create_from_template *)

\* the categories, in the order tried, that hold the template
Holding(name) ==
  SelectSeq(TryCategories, LAMBDA c : TemplateKey(name, c) \in DOMAIN tstore)

\* C24: simple_create_from_template tries business, personal, academic and
\* general in that order, returns the success result of the first category
\* whose template it could create from and tries none after it, and returns
\* the not-found message only when no category holds the template.
C24_FirstCategoryWins ==
  last.op = "simple_create" =>
    LET holding == Holding(last.key)
    IN /\ last.kind = "notfound" <=> holding = <<>>
       /\ holding # <<>> =>
            /\ last.ok
            /\ last.args # <<>> /\ last.args[Len(last.args)] = holding[1]
            /\ \A i \in 1..Len(last.args) : last.args[i] = TryCategories[i]

-----------------------------------------------------------------------------
(* Properties of the run structure *)

\* the structure of a document: every run without its text
RunShape(d) ==
  LET paras(ps) == [i \in 1..Len(ps) |-> [j \in 1..Len(ps[i]) |-> 0]]
  IN [body |-> paras(d.body),
      tables |-> [t \in 1..Len(d.tables) |->
                    [r \in 1..Len(d.tables[t]) |->
                       [c \in 1..Len(d.tables[t][r]) |-> paras(d.tables[t][r][c])]]],
      sections |-> [i \in 1..Len(d.sections) |->
                      [header |-> paras(d.sections[i].header),
                       footer |-> paras(d.sections[i].footer)]]]

\* the patterns an operation looked for
PatternsOf(l) ==
  IF l.op = "substitute" THEN {l.args[v][1] : v \in 1..Len(l.args)}
  ELSE {l.args[1]}

\* C25: substitute and replace_everywhere keep the run structure: the
\* document has the same paragraphs with the same number of runs in the same
\* places afterwards, and every run whose own text contains none of the
\* patterns looked for keeps its text.
C25_RunStructurePreserved ==
  [][ last'.op \in {"substitute", "replace_everywhere"} =>
        /\ RunShape(document') = RunShape(document)
        /\ \A i \in 1..Len(AllRuns(document)) :
             (\A pattern \in PatternsOf(last') :
                ~Contains(AllRuns(document)[i], pattern))
             => AllRuns(document')[i] = AllRuns(document)[i]
    ]_vars

\* "x" has been replaced by "w" in a body of the two runs "x" and "y": the
\* first run changed and the second, without the pattern, is as it was
C25_Witness ==
  /\ last.op = "replace_everywhere"
  /\ last.args = << <<"x">>, <<"w">> >>
  /\ last.count > 0
  /\ document.body = << << <<"w">>, <<"y">> >> >>

-----------------------------------------------------------------------------
(* Properties of concurrent deletion *)

\* C26: no live blob is deleted: whenever the delete of get_file or of
\* cleanup_expired_files removes a blob from the container, the expires_at
\* of the blob it removes has passed at that moment, whatever other clients
\* did between the expiry check and the delete.
C26_NoLiveBlobDeleted ==
  [][ \A k \in DOMAIN store \ DOMAIN store' :
        last'.op \in {"get", "cleanup_delete"} => IsExpired(store[k].metadata, now)
    ]_vars

-----------------------------------------------------------------------------
(* Properties of get and the URL issuer taken together *)

\* C27: with remote storage enabled and a signing key that can be resolved,
\* right after a get of k that succeeded, get_file_url(k) returns a URL, and
\* the URL addresses the blob the get returned, also when the get found the
\* blob under a name differing from k in case.
C27_GetAndUrlAgree ==
  ( /\ last.op = "get" /\ last.ok
    /\ IsEnabled(cfg) /\ SigningKeyResolvable(cfg) )
  => LET u == GetFileUrl(World(store, local), cfg, last.key, DefaultExpiryHours, now, 0)
     IN /\ u # NoneUrl
        /\ <<u.blob>> = last.hit

-----------------------------------------------------------------------------
(* Properties of replace_text_universal on the store *)

\* C28: a universal replace of a stored document that finds no occurrence
\* leaves the blob as it was: it keeps its data and its created_at and
\* expires_at, so only a change of content extends the time to live.
C28_NoOccurrenceNoTouch ==
  [][ ( /\ last'.op = "replace_universal" /\ last'.kind = "no_occurrences"
        /\ last'.key \in DOMAIN store )
        => /\ last'.key \in DOMAIN store'
           /\ store'[last'.key].data = store[last'.key].data
           /\ store'[last'.key].metadata = store[last'.key].metadata
    ]_vars

-----------------------------------------------------------------------------
(* Properties of the order of substitution *)

Reverse(s) == [i \in 1..Len(s) |-> s[Len(s) + 1 - i]]

\* C29: substitution does not depend on the order in which the patterns of
\* the mapping are applied: the same mapping iterated in the opposite order
\* gives the same run texts, no inserted value being rewritten by another
\* pattern of the mapping.
C29_OrderIndependent ==
  [][ last'.op = "substitute" =>
        AllRuns(Substitute(document, Reverse(last'.args))) = AllRuns(document')
    ]_vars

-----------------------------------------------------------------------------
(* Properties of repeated replacement *)

\* C30: replace_text_everywhere with a non-empty find_text that is not a
\* substring of replace_text is complete within a run: afterwards no run of
\* the body, the tables, the headers or the footers contains find_text, and
\* the same call made again reports 0 replacements.
C30_ReplaceComplete ==
  [][ ( /\ last'.op = "replace_everywhere"
        /\ last'.args[1] # <<>>
        /\ ~Contains(last'.args[2], last'.args[1]) )
      => /\ \A i \in 1..Len(AllRuns(document')) :
              ~Contains(AllRuns(document')[i], last'.args[1])
         /\ ReplaceTextEverywhere(document', last'.args[1],
                                  last'.args[2]).total_replacements = 0
    ]_vars

====
